---- MODULE Spec2Model ----
(***************************************************************************)
(* A model of joelip/workout-google-sheets: the workout-cell parser        *)
(* (WorkoutParser), its link extractor, the Notion block renderer and the  *)
(* chunked page delivery (NotionClient).                                   *)
(*                                                                         *)
(* Text is modelled at character level: a JS string is a sequence of       *)
(* one-character strings, so the regular expressions of the parser are     *)
(* matched character by character, as the engine matches them.             *)
(***************************************************************************)
EXTENDS Integers, Sequences, FiniteSets, TLC

VARIABLES
    pc,             \* position of the running operation
    text,           \* link extractor: the line handed to extract/remove
    youtubeLinks,   \* link extractor: result of extractYouTubeLinks(text)
    cleanedLine,    \* link extractor: result of removeYouTubeLinks(text)
    cellContent,    \* parser: the raw cell text
    lines,          \* parser: the split, trimmed, non-blank lines
    idx,            \* parser: number of lines the for-loop has consumed
    sections,       \* parser: the sections array
    currentSection, \* parser: the section cursor (Null when absent)
    blocks,         \* renderer: the block array built from the session
    cellData,       \* batch parse: the grid of cell values
    sessions,       \* batch parse / delivery: the WorkoutSession list
    allBlocks,      \* delivery: the rendered blocks to deliver
    pageId,         \* delivery: the id of the created page (Null before creation)
    chunkStart,     \* delivery: the loop index i of appendBlocksInChunks
    calls,          \* delivery: remote calls issued so far, in issue order
    inflight,       \* delivery: the call awaiting its response (Null if none)
    completed,      \* delivery: number of calls that completed successfully
    remote,         \* delivery: the blocks held by the remote page
    tree,           \* extraction: the remote block tree (block id -> ids of its children)
    stack,          \* extraction: the call stack of the tree walk (top frame last)
    fetches,        \* extraction: the blocks.children.list calls issued so far
    extracted,      \* extraction: the value extractPageContent returned (Null before)
    cursorless,     \* extraction: responses so far with has_more and without next_cursor
    mdBlocks,       \* markdown: the blocks handed to convertBlocksToMarkdown
    markdownLines,  \* markdown: the markdownLines array of convertBlocksToMarkdown
    markdown,       \* markdown: the text convertBlocksToMarkdown returned
    workoutContent, \* markdown: the value of splitContentByWorkoutSections (Null before)
    command,        \* commands: the command that runs (create-week, create-day, post-workout)
    options,        \* commands: the command-line options given
    config,         \* commands: the content of config.json
    remoteCalls,    \* commands: the remote calls issued so far, in issue order
    reported,       \* commands: what was written to the console as an error
    exitCode,       \* commands: the exit code of the process (Null while it runs)
    pageTitle,      \* commands: the title of the page to create (Null before)
    pages,          \* commands: the titles of the pages the sink has created
    runs,           \* commands: the number of runs started
    firstWeekNumber, \* commands: config.data.currentWeekNumber before the first run
    cellReference,  \* cell comment: the cell reference handed to addCommentToCell
    range           \* cell comment: the range of the updateCells request (Null before)

vars == <<pc, text, youtubeLinks, cleanedLine, cellContent, lines, idx, sections,
          currentSection, blocks, cellData, sessions, allBlocks, pageId, chunkStart,
          calls, inflight, completed, remote, tree, stack, fetches, extracted, cursorless,
          mdBlocks, markdownLines, markdown, workoutContent,
          command, options, config, remoteCalls, reported, exitCode,
          pageTitle, pages, runs, firstWeekNumber,
          cellReference, range>>

linkVars == <<text, youtubeLinks, cleanedLine>>
parseVars == <<cellContent, lines, idx, sections, currentSection, blocks>>
gridVars == <<cellData>>
deliverVars == <<allBlocks, pageId, chunkStart, calls, inflight, completed, remote>>
extractVars == <<tree, stack, fetches, extracted, cursorless>>
\* the state of the post-workout command
markdownVars == <<mdBlocks, markdownLines, markdown, workoutContent>>
commandVars == <<command, options, config, remoteCalls, reported, exitCode,
                 pageTitle, pages, runs, firstWeekNumber>>
cellRefVars == <<cellReference, range>>
postVars == <<extractVars, markdownVars, commandVars, cellRefVars>>

\* JS null / undefined
Null == [null |-> TRUE]

(***************************************************************************)
(* Characters and strings                                                  *)
(***************************************************************************)
UpperSeq == <<"A","B","C","D","E","F","G","H","I","J","K","L","M",
              "N","O","P","Q","R","S","T","U","V","W","X","Y","Z">>
LowerSeq == <<"a","b","c","d","e","f","g","h","i","j","k","l","m",
              "n","o","p","q","r","s","t","u","v","w","x","y","z">>
DigitSeq == <<"0","1","2","3","4","5","6","7","8","9">>

Range(s) == {s[i] : i \in DOMAIN s}

UpperChars == Range(UpperSeq)
DigitChars == Range(DigitSeq)
IdChars == Range(UpperSeq) \cup Range(LowerSeq) \cup Range(DigitSeq) \cup {"_", "-"}
\* the white space String.prototype.trim removes (those of it a line can hold)
SpaceChars == {" ", "\t", "\r"}
LowerOf == [c \in UpperChars |-> LowerSeq[CHOOSE i \in DOMAIN UpperSeq : UpperSeq[i] = c]]

\* [A-Z]
IsUpper(c) == c \in UpperChars
\* \d
IsDigit(c) == c \in DigitChars
\* [a-zA-Z0-9_-]
IsIdChar(c) == c \in IdChars
IsSpace(c) == c \in SpaceChars

\* case folding of the /i flag
ToLower(c) == IF IsUpper(c) THEN LowerOf[c] ELSE c

\* String.prototype.trim
Trim(s) ==
    LET keep == {i \in DOMAIN s : ~IsSpace(s[i])}
    IN IF keep = {} THEN <<>>
       ELSE LET a == CHOOSE i \in keep : \A j \in keep : i <= j
                b == CHOOSE i \in keep : \A j \in keep : i >= j
            IN SubSeq(s, a, b)

\* String.prototype.split('\n')
RECURSIVE SplitLines(_)
SplitLines(s) ==
    LET nl == {i \in DOMAIN s : s[i] = "\n"}
    IN IF nl = {} THEN <<s>>
       ELSE LET i == CHOOSE k \in nl : \A j \in nl : k <= j
            IN <<SubSeq(s, 1, i - 1)>> \o SplitLines(SubSeq(s, i + 1, Len(s)))

\* does p occur in t at position i
PrefixAt(t, i, p) ==
    /\ i + Len(p) - 1 <= Len(t)
    /\ \A k \in 1..Len(p) : t[i + k - 1] = p[k]

(***************************************************************************)
(* WorkoutParser: the three patterns                                       *)
(***************************************************************************)
HTTP == <<"h","t","t","p">>
HTTP_SCHEME == <<"h","t","t","p",":","/","/">>
HTTPS_SCHEME == <<"h","t","t","p","s",":","/","/">>
WWW == <<"w","w","w",".">>
HOST_WATCH == <<"y","o","u","t","u","b","e",".","c","o","m","/","w","a","t","c","h","?","v","=">>
HOST_SHORTS == <<"y","o","u","t","u","b","e",".","c","o","m","/","s","h","o","r","t","s","/">>
HOST_SHORT == <<"y","o","u","t","u",".","b","e","/">>
UPPER_BODY == <<"u","p","p","e","r"," ","b","o","d","y",":">>
LOWER_BODY == <<"l","o","w","e","r"," ","b","o","d","y",":">>

\* {11}: the length of a video id
IdLen == 11

\* ([a-zA-Z0-9_-]{11}) at position j
IdAt(t, j) ==
    /\ j + IdLen - 1 <= Len(t)
    /\ \A k \in 0..(IdLen - 1) : IsIdChar(t[j + k])

\* the first alternative that matched: the first length of ns that is not 0
FirstMatch(ns) ==
    IF \A k \in DOMAIN ns : ns[k] = 0 THEN 0
    ELSE ns[CHOOSE k \in DOMAIN ns : ns[k] > 0 /\ \A j \in 1..(k - 1) : ns[j] = 0]

\* a prefix of length n followed by a rest that matched m characters (0: no match)
Then(n, m) == IF m > 0 THEN n + m ELSE 0

\* one alternative of the host group followed by the id; the length matched or 0
HostAlt(t, j, host) ==
    IF PrefixAt(t, j, host) /\ IdAt(t, j + Len(host)) THEN Len(host) + IdLen ELSE 0

\* (?:youtube\.com\/watch\?v=|youtube\.com\/shorts\/|youtu\.be\/)([a-zA-Z0-9_-]{11})
\* at position j: alternatives tried in order; the length matched or 0
HostIdAt(t, j) ==
    FirstMatch(<<HostAlt(t, j, HOST_WATCH), HostAlt(t, j, HOST_SHORTS), HostAlt(t, j, HOST_SHORT)>>)

\* (?:www\.)? then the rest: greedy, backtracking to the empty option
WwwHostIdAt(t, j) ==
    FirstMatch(<<IF PrefixAt(t, j, WWW) THEN Then(Len(WWW), HostIdAt(t, j + Len(WWW))) ELSE 0,
                 HostIdAt(t, j)>>)

\* YOUTUBE_URL_PATTERN at position i: (?:https?:\/\/)? then the rest, the
\* optional parts greedy, backtracking to the shorter options
MatchLenAt(t, i) ==
    FirstMatch(<<IF PrefixAt(t, i, HTTPS_SCHEME)
                 THEN Then(Len(HTTPS_SCHEME), WwwHostIdAt(t, i + Len(HTTPS_SCHEME))) ELSE 0,
                 IF PrefixAt(t, i, HTTP_SCHEME)
                 THEN Then(Len(HTTP_SCHEME), WwwHostIdAt(t, i + Len(HTTP_SCHEME))) ELSE 0,
                 WwwHostIdAt(t, i)>>)

\* the /g scan: leftmost matches, each search resuming after the previous match;
\* n is the length matched at i
RECURSIVE ScanMatches(_, _)
RECURSIVE ScanFrom(_, _, _)
ScanFrom(t, i, n) ==
    IF n > 0 THEN <<SubSeq(t, i, i + n - 1)>> \o ScanMatches(t, i + n)
    ELSE ScanMatches(t, i + 1)

\* text.match(YOUTUBE_URL_PATTERN), with [] for null
ScanMatches(t, i) ==
    IF i > Len(t) THEN <<>> ELSE ScanFrom(t, i, MatchLenAt(t, i))

\* text.replace(YOUTUBE_URL_PATTERN, ''); n is the length matched at i
RECURSIVE ReplaceMatches(_, _)
RECURSIVE ReplaceFrom(_, _, _)
ReplaceFrom(t, i, n) ==
    IF n > 0 THEN ReplaceMatches(t, i + n)
    ELSE <<t[i]>> \o ReplaceMatches(t, i + 1)

ReplaceMatches(t, i) ==
    IF i > Len(t) THEN <<>> ELSE ReplaceFrom(t, i, MatchLenAt(t, i))

CANONICAL_PREFIX == HTTPS_SCHEME \o WWW \o HOST_WATCH

\* the canonical URL of the id that ends at position e of url
CanonicalOf(url, e) == CANONICAL_PREFIX \o SubSeq(url, e - IdLen + 1, e)

\* the leftmost match of the unanchored host-and-id pattern among the
\* positions hits, or url itself without a match
NormalizeAt(url, hits) ==
    IF \A p \in DOMAIN url : hits[p] = 0 THEN url
    ELSE CanonicalOf(url, CHOOSE e \in DOMAIN url :
                            \E p \in DOMAIN url :
                                /\ hits[p] > 0 /\ e = p + hits[p] - 1
                                /\ \A q \in 1..(p - 1) : hits[q] = 0)

\* variant: the match is returned as it was found, not rewritten
normalizeYouTubeUrl_Unchanged(url) == url

normalizeYouTubeUrl(url) == NormalizeAt(url, [p \in DOMAIN url |-> HostIdAt(url, p)])

\* match.startsWith('http') ? match : `https://${match}`
FullUrl(match) == IF PrefixAt(match, 1, HTTP) THEN match ELSE HTTPS_SCHEME \o match

NormalizeAll(matches) == [k \in DOMAIN matches |-> normalizeYouTubeUrl(FullUrl(matches[k]))]

extractYouTubeLinks(t) == NormalizeAll(ScanMatches(t, 1))

removeYouTubeLinks(t) == Trim(ReplaceMatches(t, 1))

\* SECTION_HEADER_PATTERN /^[A-Z]\d*\./ on the trimmed line
isSectionHeader(line) ==
    LET t == Trim(line)
    IN /\ Len(t) >= 2
       /\ IsUpper(t[1])
       /\ \E d \in 2..Len(t) :
            /\ t[d] = "."
            /\ \A k \in 2..(d - 1) : IsDigit(t[k])

\* UPPER_LOWER_PATTERN /^(upper body|lower body):$/i on the trimmed line
isUpperLowerBody(line) ==
    LET t == Trim(line)
        low == [k \in DOMAIN t |-> ToLower(t[k])]
    IN Len(t) = Len(UPPER_BODY) /\ (low = UPPER_BODY \/ low = LOWER_BODY)

(***************************************************************************)
(* Input texts                                                             *)
(***************************************************************************)
\* video ids the inputs are drawn from: letters, digits, '-' and '_'
IdPool == << <<"a","b","c","1","2","3","4","5","6","7","8">>,
             <<"d","Q","w","4","w","9","W","g","X","c","Q">>,
             <<"-","_","Z","0","9","a","z","A","Z","_","-">> >>

\* how many ids of IdPool the inputs use
NumIds == 2

Ids == {IdPool[i] : i \in 1..NumIds}

\* the three URL shapes, with or without scheme and www.
Urls == {s \o w \o h \o id : s \in {<<>>, HTTP_SCHEME, HTTPS_SCHEME}, w \in {<<>>, WWW},
                            h \in {HOST_WATCH, HOST_SHORTS, HOST_SHORT}, id \in Ids}

\* a URL cut short: five id characters where eleven are needed
HalfUrl == HOST_SHORT \o <<"a","b","c","d","e">>
\* six more id characters
HalfId == <<"f","g","h","i","j","k">>

\* lines handed to the link extractor: text, a URL, text, a URL, text
LinkTexts ==
    {t0 \o u1 \o t1 \o u2 \o t2 :
        t0 \in {<<>>, <<"x", " ">>, HalfUrl},
        u1 \in Urls \cup {<<>>},
        t1 \in {<<>>, <<" ">>},
        u2 \in {<<>>, HOST_SHORT \o IdPool[1]},
        t2 \in {<<>>, HalfId, <<" ", "y">>}}

(***************************************************************************)
(* Idle values of the variables an operation does not use                  *)
(***************************************************************************)
IdleLinks == text = <<>> /\ youtubeLinks = <<>> /\ cleanedLine = <<>>
IdleParse ==
    /\ cellContent = <<>> /\ lines = <<>> /\ idx = 0
    /\ sections = <<>> /\ currentSection = Null /\ blocks = <<>>
IdleGrid == cellData = <<>>
IdleSessions == sessions = <<>>
IdleDeliver ==
    /\ allBlocks = <<>> /\ pageId = Null /\ chunkStart = 0
    /\ calls = <<>> /\ inflight = Null
    /\ completed = 0 /\ remote = <<>>
IdleExtract ==
    tree = <<>> /\ stack = <<>> /\ fetches = <<>> /\ extracted = Null /\ cursorless = 0
IdleMarkdown ==
    mdBlocks = <<>> /\ markdownLines = <<>> /\ markdown = <<>> /\ workoutContent = Null
IdleCommand ==
    /\ command = Null /\ options = Null /\ config = Null
    /\ remoteCalls = <<>> /\ reported = <<>> /\ exitCode = Null
    /\ pageTitle = Null /\ pages = <<>> /\ runs = 0 /\ firstWeekNumber = Null
IdleCellRef == cellReference = <<>> /\ range = Null
IdlePost == IdleExtract /\ IdleMarkdown /\ IdleCommand /\ IdleCellRef

(***************************************************************************)
(* The link extractor applied to one line, as parseCellData applies it:    *)
(* extractYouTubeLinks(line), then removeYouTubeLinks(line)                *)
(***************************************************************************)
InitLinks ==
    /\ pc = "extract"
    /\ text \in LinkTexts
    /\ youtubeLinks = <<>>
    /\ cleanedLine = <<>>
    /\ IdleParse /\ IdleGrid /\ IdleSessions /\ IdleDeliver /\ IdlePost

ExtractYouTubeLinks ==
    /\ pc = "extract"
    /\ youtubeLinks' = extractYouTubeLinks(text)
    /\ pc' = "remove"
    /\ UNCHANGED <<postVars, text, cleanedLine, parseVars, gridVars, sessions, deliverVars>>

RemoveYouTubeLinks ==
    /\ pc = "remove"
    /\ cleanedLine' = removeYouTubeLinks(text)
    /\ pc' = "done"
    /\ UNCHANGED <<postVars, text, youtubeLinks, parseVars, gridVars, sessions, deliverVars>>

NextLinks == ExtractYouTubeLinks \/ RemoveYouTubeLinks

SpecLinks == InitLinks /\ [][NextLinks]_vars

(***************************************************************************)
(* WorkoutParser.parseCellData                                             *)
(***************************************************************************)
\* cellContent.split('\n').map(line => line.trim()).filter(line => line)
CellLines(content) ==
    LET trimmed == [k \in DOMAIN SplitLines(content) |-> Trim(SplitLines(content)[k])]
    IN SelectSeq(trimmed, LAMBDA l : l # <<>>)

\* the loop state before the first line
ParseStart == [sections |-> <<>>, currentSection |-> Null]

\* the section a header line opens
OpenSection(kind, line) ==
    [type |-> kind, header |-> Trim(line), content |-> <<>>, youtubeLinks |-> <<>>]

\* variant: the closed section is put in front of the sections (unshift for push)
PushCurrent_Unshift(st) ==
    IF st.currentSection # Null THEN <<st.currentSection>> \o st.sections ELSE st.sections

\* if (currentSection) sections.push(currentSection)
PushCurrent(st) ==
    IF st.currentSection # Null THEN Append(st.sections, st.currentSection) ELSE st.sections

\* variant: a freeform line with links and no text is dropped
ContentLine_TextOnly(st, links, cleaned) ==
    IF st.currentSection # Null THEN
        [sections |-> st.sections,
         currentSection |->
            [st.currentSection EXCEPT
                !.youtubeLinks = IF Len(links) > 0 THEN @ \o links ELSE @,
                !.content = IF cleaned # <<>> THEN Append(@, cleaned) ELSE @]]
    ELSE
        [sections |->
            IF cleaned # <<>>
            THEN Append(st.sections,
                        [type |-> "text", content |-> <<cleaned>>, youtubeLinks |-> links])
            ELSE st.sections,
         currentSection |-> Null]

\* variant: the cleaned line is pushed without the test for the empty string
ContentLine_KeepEmpty(st, links, cleaned) ==
    IF st.currentSection # Null THEN
        [sections |-> st.sections,
         currentSection |->
            [st.currentSection EXCEPT
                !.youtubeLinks = IF Len(links) > 0 THEN @ \o links ELSE @,
                !.content = Append(@, cleaned)]]
    ELSE
        [sections |->
            IF cleaned # <<>> \/ Len(links) > 0
            THEN Append(st.sections,
                        [type |-> "text",
                         content |-> IF cleaned # <<>> THEN <<cleaned>> ELSE <<>>,
                         youtubeLinks |-> links])
            ELSE st.sections,
         currentSection |-> Null]

\* variant: the links of a line are assigned to the section, not pushed onto it
ContentLine_LinksAssigned(st, links, cleaned) ==
    IF st.currentSection # Null THEN
        [sections |-> st.sections,
         currentSection |->
            [st.currentSection EXCEPT
                !.youtubeLinks = IF Len(links) > 0 THEN links ELSE @,
                !.content = IF cleaned # <<>> THEN Append(@, cleaned) ELSE @]]
    ELSE
        [sections |->
            IF cleaned # <<>> \/ Len(links) > 0
            THEN Append(st.sections,
                        [type |-> "text",
                         content |-> IF cleaned # <<>> THEN <<cleaned>> ELSE <<>>,
                         youtubeLinks |-> links])
            ELSE st.sections,
         currentSection |-> Null]

\* variant: a freeform line opens a section that the next lines are added to
ContentLine_OpensFreeform(st, links, cleaned) ==
    IF st.currentSection # Null THEN
        [sections |-> st.sections,
         currentSection |->
            [st.currentSection EXCEPT
                !.youtubeLinks = IF Len(links) > 0 THEN @ \o links ELSE @,
                !.content = IF cleaned # <<>> THEN Append(@, cleaned) ELSE @]]
    ELSE
        [sections |-> st.sections,
         currentSection |->
            [type |-> "text",
             content |-> IF cleaned # <<>> THEN <<cleaned>> ELSE <<>>,
             youtubeLinks |-> links]]

\* lines 101-122: a line that is no header, with its links and its cleaned text
ContentLine(st, links, cleaned) ==
    IF st.currentSection # Null THEN
        [sections |-> st.sections,
         currentSection |->
            [st.currentSection EXCEPT
                !.youtubeLinks = IF Len(links) > 0 THEN @ \o links ELSE @,
                !.content = IF cleaned # <<>> THEN Append(@, cleaned) ELSE @]]
    ELSE
        [sections |->
            IF cleaned # <<>> \/ Len(links) > 0
            THEN Append(st.sections,
                        [type |-> "text",
                         content |-> IF cleaned # <<>> THEN <<cleaned>> ELSE <<>>,
                         youtubeLinks |-> links])
            ELSE st.sections,
         currentSection |-> Null]

\* variant: an open section without content and links is dropped, not pushed
ParseLine_SkipEmptySections(st, line) ==
    LET kept == IF st.currentSection # Null
                   /\ st.currentSection.content = <<>>
                   /\ st.currentSection.youtubeLinks = <<>>
                THEN st.sections ELSE PushCurrent(st)
    IN IF isSectionHeader(line) THEN
           [sections |-> kept, currentSection |-> OpenSection("section", line)]
       ELSE IF isUpperLowerBody(line) THEN
           [sections |-> kept, currentSection |-> OpenSection("upper_lower", line)]
       ELSE ContentLine(st, extractYouTubeLinks(line), Trim(removeYouTubeLinks(line)))

\* variant: a grouped header is pushed at once and leaves no section open
ParseLine_GroupedStandsAlone(st, line) ==
    IF isSectionHeader(line) THEN
        [sections |-> PushCurrent(st), currentSection |-> OpenSection("section", line)]
    ELSE IF isUpperLowerBody(line) THEN
        [sections |-> Append(PushCurrent(st), OpenSection("upper_lower", line)),
         currentSection |-> Null]
    ELSE ContentLine(st, extractYouTubeLinks(line), Trim(removeYouTubeLinks(line)))

\* one iteration of the for-loop over the lines
ParseLine(st, line) ==
    IF isSectionHeader(line) THEN
        [sections |-> PushCurrent(st), currentSection |-> OpenSection("section", line)]
    ELSE IF isUpperLowerBody(line) THEN
        [sections |-> PushCurrent(st), currentSection |-> OpenSection("upper_lower", line)]
    ELSE ContentLine(st, extractYouTubeLinks(line), Trim(removeYouTubeLinks(line)))

RECURSIVE ParseLoop(_, _, _)
ParseLoop(st, ls, i) ==
    IF i > Len(ls) THEN st ELSE ParseLoop(ParseLine(st, ls[i]), ls, i + 1)

parseCellData(content, sessionNumber) ==
    [sessionNumber |-> sessionNumber,
     sections |-> PushCurrent(ParseLoop(ParseStart, CellLines(content), 1))]

parseSingleCell(content) == parseCellData(content, 1)

(***************************************************************************)
(* NotionClient: the block renderer                                        *)
(***************************************************************************)
\* `${n}` for a non-negative integer
RECURSIVE Digits(_)
Digits(n) ==
    IF n < 10 THEN <<DigitSeq[n + 1]>>
    ELSE Digits(n \div 10) \o <<DigitSeq[(n % 10) + 1]>>

SESSION_ == <<"S","e","s","s","i","o","n"," ">>

TextBlock(kind, t) == [object |-> "block", type |-> kind, content |-> t]
EmbedBlock(u) == [object |-> "block", type |-> "embed", url |-> u]

\* section.header is set and not the empty string
HasHeader(section) == "header" \in DOMAIN section /\ section.header # <<>>

\* variant: a freeform section's lines are rendered as bullets
PageSectionBlocks_TextAsBullets(section) ==
    (IF section.type = "section" /\ HasHeader(section) THEN
         <<TextBlock("paragraph", section.header)>>
         \o [k \in DOMAIN section.content |-> TextBlock("bulleted_list_item", section.content[k])]
     ELSE IF section.type = "upper_lower" /\ HasHeader(section) THEN
         <<TextBlock("heading_3", section.header)>>
         \o [k \in DOMAIN section.content |-> TextBlock("bulleted_list_item", section.content[k])]
     ELSE IF section.type = "text" THEN
         [k \in DOMAIN section.content |-> TextBlock("bulleted_list_item", section.content[k])]
     ELSE <<>>)
    \o [k \in DOMAIN section.youtubeLinks |-> EmbedBlock(section.youtubeLinks[k])]

\* the body of buildPageContent's loop over session.sections
PageSectionBlocks(section) ==
    (IF section.type = "section" /\ HasHeader(section) THEN
         <<TextBlock("paragraph", section.header)>>
         \o [k \in DOMAIN section.content |-> TextBlock("bulleted_list_item", section.content[k])]
     ELSE IF section.type = "upper_lower" /\ HasHeader(section) THEN
         <<TextBlock("heading_3", section.header)>>
         \o [k \in DOMAIN section.content |-> TextBlock("bulleted_list_item", section.content[k])]
     ELSE IF section.type = "text" THEN
         [k \in DOMAIN section.content |-> TextBlock("paragraph", section.content[k])]
     ELSE <<>>)
    \o [k \in DOMAIN section.youtubeLinks |-> EmbedBlock(section.youtubeLinks[k])]

RECURSIVE PageSectionsBlocks(_, _)
PageSectionsBlocks(secs, i) ==
    IF i > Len(secs) THEN <<>>
    ELSE PageSectionBlocks(secs[i]) \o PageSectionsBlocks(secs, i + 1)

RECURSIVE PageSessionsBlocks(_, _)
PageSessionsBlocks(ss, i) ==
    IF i > Len(ss) THEN <<>>
    ELSE <<TextBlock("heading_2", SESSION_ \o Digits(ss[i].sessionNumber))>>
         \o PageSectionsBlocks(ss[i].sections, 1)
         \o PageSessionsBlocks(ss, i + 1)

\* variant: one heading for the whole page instead of one per session
buildPageContent_HeadingOnce(ss) ==
    IF ss = <<>> THEN <<>>
    ELSE <<PageSessionsBlocks(ss, 1)[1]>>
         \o SelectSeq(Tail(PageSessionsBlocks(ss, 1)), LAMBDA b : b.type # "heading_2")

buildPageContent(ss) == PageSessionsBlocks(ss, 1)

\* variant: the embeds of a section are emitted before its content blocks
SingleSectionBlocks_EmbedsFirst(section) ==
    [k \in DOMAIN section.youtubeLinks |-> EmbedBlock(section.youtubeLinks[k])]
    \o (IF section.type = "section" /\ HasHeader(section) THEN
            <<TextBlock("paragraph", section.header)>>
            \o [k \in DOMAIN section.content |-> TextBlock("bulleted_list_item", section.content[k])]
        ELSE IF section.type = "upper_lower" /\ HasHeader(section) THEN
            <<TextBlock("heading_3", section.header)>>
            \o [k \in DOMAIN section.content |-> TextBlock("bulleted_list_item", section.content[k])]
        ELSE IF section.type = "text" THEN
            [k \in DOMAIN section.content |-> TextBlock("paragraph", section.content[k])]
        ELSE <<>>)

\* the body of buildSingleSessionContent's loop over session.sections
SingleSectionBlocks(section) ==
    (IF section.type = "section" /\ HasHeader(section) THEN
         <<TextBlock("paragraph", section.header)>>
         \o [k \in DOMAIN section.content |-> TextBlock("bulleted_list_item", section.content[k])]
     ELSE IF section.type = "upper_lower" /\ HasHeader(section) THEN
         <<TextBlock("heading_3", section.header)>>
         \o [k \in DOMAIN section.content |-> TextBlock("bulleted_list_item", section.content[k])]
     ELSE IF section.type = "text" THEN
         [k \in DOMAIN section.content |-> TextBlock("paragraph", section.content[k])]
     ELSE <<>>)
    \o [k \in DOMAIN section.youtubeLinks |-> EmbedBlock(section.youtubeLinks[k])]

RECURSIVE SingleSectionsBlocks(_, _)
SingleSectionsBlocks(secs, i) ==
    IF i > Len(secs) THEN <<>>
    ELSE SingleSectionBlocks(secs[i]) \o SingleSectionsBlocks(secs, i + 1)

buildSingleSessionContent(session) == SingleSectionsBlocks(session.sections, 1)

(***************************************************************************)
(* Cell texts                                                              *)
(***************************************************************************)
L_LABELED == <<"A","."," ","W","a","r","m","-","u","p">>
L_LABELED_URL == <<"B","2","."," ","y","o","u","t","u",".","b","e","/","a","b","c","1","2","3","4","5","6","7","8">>
L_GROUPED == <<" ","U","p","p","e","r"," ","B","o","d","y",":","\t">>
L_PLAIN == <<"5"," ","m","i","n"," ","c","a","r","d","i","o">>
L_LINK == <<"h","t","t","p","s",":","/","/","y","o","u","t","u",".","b","e","/","a","b","c","1","2","3","4","5","6","7","8">>
L_MIXED == <<"a"," ","y","o","u","t","u",".","b","e","/","a","b","c","1","2","3","4","5","6","7","8"," ","y","o","u","t","u","b","e",".","c","o","m","/","s","h","o","r","t","s","/","d","Q","w","4","w","9","W","g","X","c","Q">>
L_BLANK == <<" ">>
L_LOOKALIKE == <<"u","p","p","e","r"," ","b","o","d","y",":"," ","x">>

\* the lines a cell is made of
LineVocab == {L_LABELED, L_LABELED_URL, L_GROUPED, L_PLAIN, L_LINK, L_MIXED, L_BLANK,
              L_LOOKALIKE}

\* the most lines a cell holds
MaxLines == 3

RECURSIVE JoinLines(_)
JoinLines(ls) ==
    IF ls = <<>> THEN <<>>
    ELSE IF Len(ls) = 1 THEN ls[1]
    ELSE ls[1] \o <<"\n">> \o JoinLines(Tail(ls))

CellTexts == {JoinLines(ls) : ls \in UNION {[1..n -> LineVocab] : n \in 0..MaxLines}}

(***************************************************************************)
(* parseSingleCell, one loop iteration per step, then one of the renderers *)
(***************************************************************************)
InitParse ==
    /\ pc = "split"
    /\ cellContent \in CellTexts
    /\ lines = <<>> /\ idx = 0 /\ sections = <<>> /\ currentSection = Null
    /\ blocks = <<>>
    /\ sessions = <<>>
    /\ IdleLinks /\ IdleGrid /\ IdleDeliver /\ IdlePost

\* parseCellData, line 76
SplitCell ==
    /\ pc = "split"
    /\ lines' = CellLines(cellContent)
    /\ pc' = "loop"
    /\ UNCHANGED <<postVars, cellContent, idx, sections, currentSection, blocks, sessions,
                   linkVars, gridVars, deliverVars>>

\* parseCellData, lines 80-123: one line
ParseNextLine ==
    /\ pc = "loop"
    /\ idx < Len(lines)
    /\ LET st == ParseLine([sections |-> sections, currentSection |-> currentSection],
                           lines[idx + 1])
       IN /\ sections' = st.sections
          /\ currentSection' = st.currentSection
    /\ idx' = idx + 1
    /\ UNCHANGED <<postVars, pc, cellContent, lines, blocks, sessions, linkVars, gridVars, deliverVars>>

\* parseCellData, lines 125-132: close the open section and return the session
FinishParse ==
    /\ pc = "loop"
    /\ idx = Len(lines)
    /\ sections' = PushCurrent([sections |-> sections, currentSection |-> currentSection])
    /\ sessions' = <<[sessionNumber |-> 1, sections |-> sections']>>
    /\ pc' = "parsed"
    /\ UNCHANGED <<postVars, cellContent, lines, idx, currentSection, blocks, linkVars, gridVars,
                   deliverVars>>

\* create-day: createDayWorkoutPage renders the session
BuildSingleSessionContent ==
    /\ pc = "parsed"
    /\ blocks' = buildSingleSessionContent(sessions[1])
    /\ pc' = "rendered_day"
    /\ UNCHANGED <<postVars, cellContent, lines, idx, sections, currentSection, sessions, linkVars,
                   gridVars, deliverVars>>

\* createWorkoutPage renders the session list
BuildPageContent ==
    /\ pc = "parsed"
    /\ blocks' = buildPageContent(sessions)
    /\ pc' = "rendered_week"
    /\ UNCHANGED <<postVars, cellContent, lines, idx, sections, currentSection, sessions, linkVars,
                   gridVars, deliverVars>>

NextParse ==
    SplitCell \/ ParseNextLine \/ FinishParse \/ BuildSingleSessionContent \/ BuildPageContent

SpecParse == InitParse /\ [][NextParse]_vars

(***************************************************************************)
(* WorkoutParser.parseWorkoutData                                          *)
(***************************************************************************)
\* cell values of a fetched range: strings and numbers
StringCell(v) == [kind |-> "string", value |-> v]
NumberCell(n) == [kind |-> "number", value |-> n]

\* cell && typeof cell === 'string'
IsTruthyString(cell) == cell.kind = "string" /\ cell.value # <<>>

\* variant: the session number is a running count of the row's cells from 0
CellSessions_NoPlusOne(cell, r, rowLength, c) ==
    IF IsTruthyString(cell) THEN
        LET session == parseCellData(cell.value, r * rowLength + c)
        IN IF Len(session.sections) > 0 THEN <<session>> ELSE <<>>
    ELSE <<>>

\* the body of the inner forEach: r and c are the zero-based indices
CellSessions(cell, r, rowLength, c) ==
    IF IsTruthyString(cell) THEN
        LET session == parseCellData(cell.value, r * rowLength + c + 1)
        IN IF Len(session.sections) > 0 THEN <<session>> ELSE <<>>
    ELSE <<>>

RECURSIVE RowSessions(_, _, _)
RowSessions(row, r, c) ==
    IF c >= Len(row) THEN <<>>
    ELSE CellSessions(row[c + 1], r, Len(row), c) \o RowSessions(row, r, c + 1)

RECURSIVE GridSessions(_, _)
GridSessions(grid, r) ==
    IF r >= Len(grid) THEN <<>>
    ELSE RowSessions(grid[r + 1], r, 0) \o GridSessions(grid, r + 1)

parseWorkoutData(grid) == GridSessions(grid, 0)

\* the values a cell holds: text with a section, white space only, the empty
\* string, a number
CellVocab == {StringCell(L_PLAIN), StringCell(L_BLANK), StringCell(<<>>), NumberCell(7)}

\* the most cells a grid holds
MaxCells == 4

\* the grids of non-empty rows with at most n cells in all
RECURSIVE GridsWithin(_)
GridsWithin(n) ==
    {<<>>} \cup
    UNION {{<<row>> \o rest : row \in [1..k -> CellVocab], rest \in GridsWithin(n - k)} :
            k \in 1..n}

InitGrid ==
    /\ pc = "grid"
    /\ cellData \in GridsWithin(MaxCells)
    /\ sessions = <<>>
    /\ IdleLinks /\ IdleParse /\ IdleDeliver /\ IdlePost

\* create-week: WorkoutParser.parseWorkoutData(data)
ParseWorkoutData ==
    /\ pc = "grid"
    /\ sessions' = parseWorkoutData(cellData)
    /\ pc' = "parsed"
    /\ UNCHANGED <<postVars, cellData, linkVars, parseVars, deliverVars>>

NextGrid == ParseWorkoutData \/ BuildPageContent

SpecGrid == InitGrid /\ [][NextGrid]_vars

(***************************************************************************)
(* create-week on a sheet whose cells hold sections of every kind          *)
(***************************************************************************)
CELL_LABELED == JoinLines(<<L_LABELED, L_PLAIN, L_LINK>>)
CELL_GROUPED == JoinLines(<<L_GROUPED, L_PLAIN, L_MIXED>>)
CELL_FREEFORM == JoinLines(<<L_PLAIN, L_LINK, L_LABELED_URL>>)

RichCellVocab ==
    {StringCell(CELL_LABELED), StringCell(CELL_GROUPED), StringCell(CELL_FREEFORM),
     StringCell(L_BLANK), NumberCell(7)}

MaxRichCells == 2

RECURSIVE RichGridsWithin(_)
\* the grids of non-empty rows that hold at most n cells
RichGridsWithin(n) ==
    {<<>>} \cup
    UNION {{<<row>> \o rest : row \in [1..k -> RichCellVocab], rest \in RichGridsWithin(n - k)} :
            k \in 1..n}

InitRender ==
    /\ pc = "grid"
    /\ cellData \in RichGridsWithin(MaxRichCells)
    /\ sessions = <<>>
    /\ IdleLinks /\ IdleParse /\ IdleDeliver /\ IdlePost

SpecRender == InitRender /\ [][NextGrid]_vars

(***************************************************************************)
(* NotionClient.createWorkoutPage / createDayWorkoutPage: page delivery    *)
(***************************************************************************)
\* Array.prototype.slice(a, b) for 0 <= a
Slice(s, a, b) == SubSeq(s, a + 1, IF b < Len(s) THEN b ELSE Len(s))

\* slice(0, 100) and slice(100): the blocks a page-creation call may carry
InitialLimit == 100
\* chunkSize of appendBlocksInChunks
ChunkSize == 100

initialBlocks(bs) == Slice(bs, 0, InitialLimit)
\* variant: the remaining blocks start one block late
remainingBlocks_OffByOne(bs) == Slice(bs, InitialLimit + 1, Len(bs))
remainingBlocks(bs) == Slice(bs, InitialLimit, Len(bs))
\* variant: a chunk ends one block late, on the first block of the next chunk
ChunkAt_Overlapping(bs, i) == Slice(bs, i, i + ChunkSize + 1)
\* blocks.slice(i, i + chunkSize)
ChunkAt(bs, i) == Slice(bs, i, i + ChunkSize)

\* the id pages.create returns
PAGE_ID == "page-1"

\* the most blocks a delivered session renders to
MaxBlocks == 250

\* a session as the parser yields it, rendering to n blocks: a labeled
\* section of n - 1 content lines
SessionOfSize(n) ==
    [sessionNumber |-> 1,
     sections |->
        IF n = 0 THEN <<>>
        ELSE <<[type |-> "section", header |-> L_LABELED,
                content |-> [i \in 1..(n - 1) |-> Digits(i)],
                youtubeLinks |-> <<>>]>>]

\* create-week hands over the sessions of parseWorkoutData, each with a section;
\* create-day hands over the session of parseSingleCell, which may have none
InitDeliver ==
    /\ \/ pc = "build_week" /\ sessions \in {<<>>} \cup {<<SessionOfSize(n)>> : n \in 1..MaxBlocks}
       \/ pc = "build_day" /\ sessions \in {<<SessionOfSize(n)>> : n \in 0..MaxBlocks}
    /\ allBlocks = <<>> /\ pageId = Null /\ chunkStart = 0
    /\ calls = <<>> /\ inflight = Null /\ completed = 0 /\ remote = <<>>
    /\ IdleLinks /\ IdleParse /\ IdleGrid /\ IdlePost

\* createWorkoutPage, line 41
BuildWeekBlocks ==
    /\ pc = "build_week"
    /\ allBlocks' = buildPageContent(sessions)
    /\ pc' = "create"
    /\ UNCHANGED <<postVars, sessions, pageId, chunkStart, calls, inflight, completed, remote,
                   linkVars, parseVars, gridVars>>

\* createDayWorkoutPage, line 73
BuildDayBlocks ==
    /\ pc = "build_day"
    /\ allBlocks' = buildSingleSessionContent(sessions[1])
    /\ pc' = "create"
    /\ UNCHANGED <<postVars, sessions, pageId, chunkStart, calls, inflight, completed, remote,
                   linkVars, parseVars, gridVars>>

\* notion.pages.create is called with the initial blocks
IssueCreate ==
    /\ pc = "create"
    /\ inflight' = [op |-> "create", children |-> initialBlocks(allBlocks)]
    /\ calls' = Append(calls, inflight')
    /\ pc' = "await_create"
    /\ UNCHANGED <<postVars, sessions, allBlocks, pageId, chunkStart, completed, remote,
                   linkVars, parseVars, gridVars>>

\* the creation call resolves: the page exists with its initial blocks
CreateCompletes ==
    /\ pc = "await_create"
    /\ pageId' = PAGE_ID
    /\ remote' = inflight.children
    /\ completed' = completed + 1
    /\ inflight' = Null
    /\ chunkStart' = 0
    /\ pc' = IF Len(remainingBlocks(allBlocks)) > 0 THEN "append" ELSE "done"
    /\ UNCHANGED <<postVars, sessions, allBlocks, calls, linkVars, parseVars, gridVars>>

\* the creation call rejects: the await throws
CreateFails ==
    /\ pc = "await_create"
    /\ inflight' = Null
    /\ pc' = "failed"
    /\ UNCHANGED <<postVars, sessions, allBlocks, pageId, chunkStart, calls, completed, remote,
                   linkVars, parseVars, gridVars>>

\* appendBlocksInChunks: the loop test holds, blocks.children.append is called
IssueAppend ==
    /\ pc = "append"
    /\ chunkStart < Len(remainingBlocks(allBlocks))
    /\ inflight' = [op |-> "append", block_id |-> pageId,
                    children |-> ChunkAt(remainingBlocks(allBlocks), chunkStart)]
    /\ calls' = Append(calls, inflight')
    /\ pc' = "await_append"
    /\ UNCHANGED <<postVars, sessions, allBlocks, pageId, chunkStart, completed, remote,
                   linkVars, parseVars, gridVars>>

\* the append call resolves: i += chunkSize
AppendCompletes ==
    /\ pc = "await_append"
    /\ remote' = remote \o inflight.children
    /\ completed' = completed + 1
    /\ inflight' = Null
    /\ chunkStart' = chunkStart + ChunkSize
    /\ pc' = "append"
    /\ UNCHANGED <<postVars, sessions, allBlocks, pageId, calls, linkVars, parseVars, gridVars>>

\* variant: a rejected append is caught and the loop tries the chunk again
AppendFails_Retried ==
    /\ pc = "await_append"
    /\ inflight' = Null
    /\ pc' = "append"
    /\ UNCHANGED <<postVars, sessions, allBlocks, pageId, chunkStart, calls, completed, remote,
                   linkVars, parseVars, gridVars>>

\* the append call rejects: the await throws out of the loop
AppendFails ==
    /\ pc = "await_append"
    /\ inflight' = Null
    /\ pc' = "failed"
    /\ UNCHANGED <<postVars, sessions, allBlocks, pageId, chunkStart, calls, completed, remote,
                   linkVars, parseVars, gridVars>>

\* appendBlocksInChunks: the loop test fails, the page id is returned
ReturnPageId ==
    /\ pc = "append"
    /\ chunkStart >= Len(remainingBlocks(allBlocks))
    /\ pc' = "done"
    /\ UNCHANGED <<postVars, sessions, allBlocks, pageId, chunkStart, calls, inflight, completed,
                   remote, linkVars, parseVars, gridVars>>

NextDeliver ==
    \/ BuildWeekBlocks \/ BuildDayBlocks
    \/ IssueCreate \/ CreateCompletes \/ CreateFails
    \/ IssueAppend \/ AppendCompletes \/ AppendFails
    \/ ReturnPageId

SpecDeliver == InitDeliver /\ [][NextDeliver]_vars

(***************************************************************************)
(* PostWorkoutClient.extractPageContent: the walk of the remote block tree *)
(***************************************************************************)
\* the id of the page whose content is extracted
ROOT == 0

\* page_size of every blocks.children.list request
PAGE_SIZE == 100

MaxNodes == 4

\* ascending order of a finite set of integers, and its reverse
RECURSIVE Ascending(_)
Ascending(S) ==
    IF S = {} THEN <<>>
    ELSE LET m == CHOOSE x \in S : \A y \in S : x <= y
         IN <<m>> \o Ascending(S \ {m})

Reversed(s) == [i \in 1..Len(s) |-> s[Len(s) + 1 - i]]

\* the block trees of n blocks below the root: block i hangs below parent[i]
TreeOf(n, parent, descending) ==
    [b \in 0..n |->
        LET kids == Ascending({c \in 1..n : parent[c] = b})
        IN IF descending THEN Reversed(kids) ELSE kids]

Trees ==
    UNION {{TreeOf(n, parent, descending) :
                parent \in {f \in [1..n -> 0..n] : \A c \in 1..n : f[c] < c},
                descending \in BOOLEAN} :
            n \in 0..MaxNodes}

\* a block as the API returns it
RemoteBlock(id) == [id |-> id, has_children |-> tree[id] # <<>>]

\* blocks.children.list: the page of `size` results that starts at the cursor
ListResponse(block_id, start_cursor, size) ==
    LET from == IF start_cursor = Null THEN 0 ELSE start_cursor.offset
        kids == tree[block_id]
        more == from + size < Len(kids)
    IN [results |-> [i \in 1..size |-> RemoteBlock(kids[from + i])],
        has_more |-> more,
        next_cursor |-> IF more THEN [offset |-> from + size] ELSE Null]

\* the page sizes the server may answer with
PageSizes(block_id, start_cursor) ==
    LET from == IF start_cursor = Null THEN 0 ELSE start_cursor.offset
        left == Len(tree[block_id]) - from
    IN IF left = 0 THEN {0}
       ELSE {k \in 1..left : k <= PAGE_SIZE}

\* (block as any).depth = depth
WithDepth(block, depth) ==
    [id |-> block.id, has_children |-> block.has_children, depth |-> depth]

Top == stack[Len(stack)]
SetTop(frame) == [stack EXCEPT ![Len(stack)] = frame]

\* the frame of a call of extractDescendants(blockId, depth)
DescendantsFrame(blockId, depth) ==
    [fn |-> "extractDescendants", at |-> "fetch", blockId |-> blockId, depth |-> depth,
     hasMore |-> TRUE, nextCursor |-> Null, response |-> Null, i |-> 0, out |-> <<>>]

\* the frame of the call of extractBlocksIteratively(rootBlockId)
IterativeFrame(rootBlockId) ==
    [fn |-> "extractBlocksIteratively", at |-> "queue",
     queue |-> <<[blockId |-> rootBlockId, depth |-> 0]>>,
     blockId |-> rootBlockId, depth |-> 0,
     hasMore |-> FALSE, nextCursor |-> Null, children |-> <<>>, i |-> 0, out |-> <<>>]

InitExtract ==
    /\ pc = "extract_page"
    /\ tree \in Trees
    /\ stack = <<>> /\ fetches = <<>> /\ extracted = Null /\ cursorless = 0
    /\ IdleLinks /\ IdleParse /\ IdleGrid /\ IdleSessions /\ IdleDeliver
    /\ IdleMarkdown /\ IdleCommand /\ IdleCellRef

UnchangedByExtract ==
    UNCHANGED <<tree, cursorless, linkVars, parseVars, gridVars, sessions, deliverVars, markdownVars,
                commandVars, cellRefVars>>

\* extractPageContent calls extractBlocksIteratively(pageId)
ExtractPageContent ==
    /\ pc = "extract_page"
    /\ stack' = <<IterativeFrame(ROOT)>>
    /\ pc' = "walk"
    /\ UNCHANGED <<fetches, extracted>>
    /\ UnchangedByExtract

\* extractBlocksIteratively, lines 90-96: queue.shift()
QueueShift ==
    /\ pc = "walk" /\ Top.fn = "extractBlocksIteratively" /\ Top.at = "queue"
    /\ Len(Top.queue) > 0
    /\ stack' = SetTop([Top EXCEPT !.queue = Tail(@),
                                   !.blockId = Top.queue[1].blockId,
                                   !.depth = Top.queue[1].depth,
                                   !.children = <<>>, !.hasMore = TRUE,
                                   !.nextCursor = Null, !.at = "fetch"])
    /\ UNCHANGED <<pc, fetches, extracted>>
    /\ UnchangedByExtract

\* extractBlocksIteratively, lines 98-112: one page of the children
ListChildren ==
    /\ pc = "walk" /\ Top.fn = "extractBlocksIteratively" /\ Top.at = "fetch"
    /\ Top.hasMore
    /\ \E size \in PageSizes(Top.blockId, Top.nextCursor) :
        LET response == ListResponse(Top.blockId, Top.nextCursor, size)
        IN stack' = SetTop([Top EXCEPT
                !.children = @ \o [k \in 1..size |-> WithDepth(response.results[k], Top.depth)],
                !.hasMore = response.has_more,
                !.nextCursor = response.next_cursor])
    /\ fetches' = Append(fetches, [block_id |-> Top.blockId, start_cursor |-> Top.nextCursor])
    /\ UNCHANGED <<pc, extracted>>
    /\ UnchangedByExtract

\* variant: the for-loop over the children starts after any page
ChildrenFetched_AfterAnyPage ==
    /\ pc = "walk" /\ Top.fn = "extractBlocksIteratively" /\ Top.at = "fetch"
    /\ Top.nextCursor # Null \/ ~Top.hasMore
    /\ stack' = SetTop([Top EXCEPT !.i = 0, !.at = "children", !.hasMore = FALSE])
    /\ UNCHANGED <<pc, fetches, extracted>>
    /\ UnchangedByExtract

\* extractBlocksIteratively, line 117: the for-loop over the children starts
ChildrenFetched ==
    /\ pc = "walk" /\ Top.fn = "extractBlocksIteratively" /\ Top.at = "fetch"
    /\ ~Top.hasMore
    /\ stack' = SetTop([Top EXCEPT !.i = 0, !.at = "children"])
    /\ UNCHANGED <<pc, fetches, extracted>>
    /\ UnchangedByExtract

\* extractBlocksIteratively, lines 117-122: one child
NextChild ==
    /\ pc = "walk" /\ Top.fn = "extractBlocksIteratively" /\ Top.at = "children"
    /\ Top.i < Len(Top.children)
    /\ LET child == Top.children[Top.i + 1]
           frame == [Top EXCEPT !.out = Append(@, child), !.i = @ + 1]
       IN stack' = IF child.has_children
                   THEN Append(SetTop(frame), DescendantsFrame(child.id, Top.depth + 1))
                   ELSE SetTop(frame)
    /\ UNCHANGED <<pc, fetches, extracted>>
    /\ UnchangedByExtract

\* extractBlocksIteratively, lines 125-126: back to the loop test of the queue
ChildrenDone ==
    /\ pc = "walk" /\ Top.fn = "extractBlocksIteratively" /\ Top.at = "children"
    /\ Top.i = Len(Top.children)
    /\ stack' = SetTop([Top EXCEPT !.at = "queue"])
    /\ UNCHANGED <<pc, fetches, extracted>>
    /\ UnchangedByExtract

\* extractBlocksIteratively, line 128, and extractPageContent, line 75
ReturnAllBlocks ==
    /\ pc = "walk" /\ Top.fn = "extractBlocksIteratively" /\ Top.at = "queue"
    /\ Len(Top.queue) = 0
    /\ extracted' = Top.out
    /\ stack' = <<>>
    /\ pc' = "extracted"
    /\ UNCHANGED fetches
    /\ UnchangedByExtract

\* extractDescendants, lines 137-142: one page of results
ListDescendants ==
    /\ pc = "walk" /\ Top.fn = "extractDescendants" /\ Top.at = "fetch"
    /\ Top.hasMore
    /\ \E size \in PageSizes(Top.blockId, Top.nextCursor) :
        stack' = SetTop([Top EXCEPT
                !.response = ListResponse(Top.blockId, Top.nextCursor, size),
                !.i = 0, !.at = "results"])
    /\ fetches' = Append(fetches, [block_id |-> Top.blockId, start_cursor |-> Top.nextCursor])
    /\ UNCHANGED <<pc, extracted>>
    /\ UnchangedByExtract

\* extractDescendants, lines 144-151: one block of the page
NextResult ==
    /\ pc = "walk" /\ Top.fn = "extractDescendants" /\ Top.at = "results"
    /\ Top.i < Len(Top.response.results)
    /\ LET block == WithDepth(Top.response.results[Top.i + 1], Top.depth)
           frame == [Top EXCEPT !.out = Append(@, block), !.i = @ + 1]
       IN stack' = IF block.has_children
                   THEN Append(SetTop(frame), DescendantsFrame(block.id, Top.depth + 1))
                   ELSE SetTop(frame)
    /\ UNCHANGED <<pc, fetches, extracted>>
    /\ UnchangedByExtract

\* variant: has_more is read, the cursor of the next page is not
ResultsDone_CursorDropped ==
    /\ pc = "walk" /\ Top.fn = "extractDescendants" /\ Top.at = "results"
    /\ Top.i = Len(Top.response.results)
    /\ stack' = SetTop([Top EXCEPT !.hasMore = Top.response.has_more,
                                   !.nextCursor = Null,
                                   !.at = "fetch"])
    /\ UNCHANGED <<pc, fetches, extracted>>
    /\ UnchangedByExtract

\* extractDescendants, lines 154-155: the cursor of the next page
ResultsDone ==
    /\ pc = "walk" /\ Top.fn = "extractDescendants" /\ Top.at = "results"
    /\ Top.i = Len(Top.response.results)
    /\ stack' = SetTop([Top EXCEPT !.hasMore = Top.response.has_more,
                                   !.nextCursor = Top.response.next_cursor,
                                   !.at = "fetch"])
    /\ UNCHANGED <<pc, fetches, extracted>>
    /\ UnchangedByExtract

\* the caller's push(...descendants), lines 123 and 150
Spliced_Before(caller, descendants) ==
    [caller EXCEPT !.out = SubSeq(@, 1, Len(@) - 1) \o descendants \o <<@[Len(@)]>>]

Spliced(caller, descendants) == [caller EXCEPT !.out = @ \o descendants]

\* extractDescendants, line 158: return to the caller
ReturnDescendants ==
    /\ pc = "walk" /\ Top.fn = "extractDescendants" /\ Top.at = "fetch"
    /\ ~Top.hasMore
    /\ LET caller == stack[Len(stack) - 1]
       IN stack' = [k \in 1..(Len(stack) - 1) |->
                       IF k = Len(stack) - 1 THEN Spliced(caller, Top.out) ELSE stack[k]]
    /\ UNCHANGED <<pc, fetches, extracted>>
    /\ UnchangedByExtract

\* a blocks.children.list call rejects: extractPageContent rethrows
ListFails ==
    /\ pc = "walk" /\ Top.at = "fetch" /\ Top.hasMore
    /\ fetches' = Append(fetches, [block_id |-> Top.blockId, start_cursor |-> Top.nextCursor])
    /\ stack' = <<>>
    /\ pc' = "extract_failed"
    /\ UNCHANGED extracted
    /\ UnchangedByExtract

NextExtract ==
    \/ ExtractPageContent
    \/ QueueShift \/ ListChildren \/ ChildrenFetched \/ NextChild \/ ChildrenDone
    \/ ReturnAllBlocks
    \/ ListDescendants \/ NextResult \/ ResultsDone \/ ReturnDescendants
    \/ ListFails

SpecExtract == InitExtract /\ [][NextExtract]_vars

(***************************************************************************)
(* The tree walk with a server that may leave out the cursor               *)
(***************************************************************************)
\* the most responses with has_more and without next_cursor in one walk
MaxCursorless == 1

\* the most blocks of a tree walked with such responses
MaxWalkNodes == 3

InitWalk ==
    /\ InitExtract
    /\ Cardinality(DOMAIN tree) <= MaxWalkNodes + 1

\* a page of results that says has_more and carries no next_cursor
CursorlessResponse(block_id, start_cursor, size) ==
    [ListResponse(block_id, start_cursor, size) EXCEPT !.has_more = TRUE, !.next_cursor = Null]

UnchangedByCursorless ==
    UNCHANGED <<tree, linkVars, parseVars, gridVars, sessions, deliverVars, markdownVars,
                commandVars, cellRefVars>>

\* extractBlocksIteratively, lines 98-112, with such a response:
\* nextCursor = response.next_cursor || undefined
CursorlessChildren ==
    /\ pc = "walk" /\ Top.fn = "extractBlocksIteratively" /\ Top.at = "fetch"
    /\ Top.hasMore
    /\ cursorless < MaxCursorless
    /\ \E size \in PageSizes(Top.blockId, Top.nextCursor) :
        LET response == CursorlessResponse(Top.blockId, Top.nextCursor, size)
        IN stack' = SetTop([Top EXCEPT
                !.children = @ \o [k \in 1..size |-> WithDepth(response.results[k], Top.depth)],
                !.hasMore = response.has_more,
                !.nextCursor = response.next_cursor])
    /\ fetches' = Append(fetches, [block_id |-> Top.blockId, start_cursor |-> Top.nextCursor])
    /\ cursorless' = cursorless + 1
    /\ UNCHANGED <<pc, extracted>>
    /\ UnchangedByCursorless

\* extractDescendants, lines 137-142, with such a response
CursorlessDescendants ==
    /\ pc = "walk" /\ Top.fn = "extractDescendants" /\ Top.at = "fetch"
    /\ Top.hasMore
    /\ cursorless < MaxCursorless
    /\ \E size \in PageSizes(Top.blockId, Top.nextCursor) :
        stack' = SetTop([Top EXCEPT
                !.response = CursorlessResponse(Top.blockId, Top.nextCursor, size),
                !.i = 0, !.at = "results"])
    /\ fetches' = Append(fetches, [block_id |-> Top.blockId, start_cursor |-> Top.nextCursor])
    /\ cursorless' = cursorless + 1
    /\ UNCHANGED <<pc, extracted>>
    /\ UnchangedByCursorless

NextWalk == NextExtract \/ CursorlessChildren \/ CursorlessDescendants

\* every awaited call returns and every step of the walk is taken in its turn
SpecWalk == InitWalk /\ [][NextWalk]_vars /\ WF_vars(NextExtract)

(***************************************************************************)
(* PostWorkoutClient.convertBlocksToMarkdown                               *)
(***************************************************************************)
\* a rich-text run of type text, and one of another type (mention, equation)
TextRun(content) == [type |-> "text", text |-> [content |-> content]]
MentionRun == [type |-> "mention"]

\* a block with its depth, as extractPageContent returns it
Block(type, depth, rich_text) == [type |-> type, depth |-> depth, rich_text |-> rich_text]

\* block[type]?.rich_text?.[0]?.text?.content  (Null: undefined)
FirstContent(block) ==
    IF block.rich_text = <<>> THEN Null
    ELSE IF "text" \in DOMAIN block.rich_text[1] THEN block.rich_text[1].text.content
    ELSE Null

\* truthiness of a string or undefined
Truthy(v) == v # Null /\ v # <<>>

\* '  '.repeat(depth)
Indent(depth) == [i \in 1..(2 * depth) |-> " "]

H1_PREFIX == <<"#"," ">>
H2_PREFIX == <<"#","#"," ">>
H3_PREFIX == <<"#","#","#"," ">>
BULLET_PREFIX == <<"-"," ">>
NUMBER_PREFIX == <<"1","."," ">>

\* variant: headings are indented like the other kinds
BlockLines_IndentedHeadings(block) ==
    LET content == FirstContent(block)
        indent == Indent(block.depth)
    IN IF block.type = "embed" THEN <<>>
       ELSE IF block.type = "paragraph"
            THEN IF Truthy(content) THEN <<indent \o content>> ELSE << <<>> >>
       ELSE IF ~Truthy(content) THEN <<>>
       ELSE IF block.type = "heading_1" THEN <<indent \o H1_PREFIX \o content>>
       ELSE IF block.type = "heading_2" THEN <<indent \o H2_PREFIX \o content>>
       ELSE IF block.type = "heading_3" THEN <<indent \o H3_PREFIX \o content>>
       ELSE IF block.type = "bulleted_list_item" THEN <<indent \o BULLET_PREFIX \o content>>
       ELSE IF block.type = "numbered_list_item" THEN <<indent \o NUMBER_PREFIX \o content>>
       ELSE <<>>

\* variant: a paragraph with no text content is skipped like the other kinds
BlockLines_SkipEmptyParagraph(block) ==
    LET content == FirstContent(block)
        indent == Indent(block.depth)
    IN IF block.type = "embed" \/ ~Truthy(content) THEN <<>>
       ELSE IF block.type = "heading_1" THEN <<H1_PREFIX \o content>>
       ELSE IF block.type = "heading_2" THEN <<H2_PREFIX \o content>>
       ELSE IF block.type = "heading_3" THEN <<H3_PREFIX \o content>>
       ELSE IF block.type = "paragraph" THEN <<indent \o content>>
       ELSE IF block.type = "bulleted_list_item" THEN <<indent \o BULLET_PREFIX \o content>>
       ELSE IF block.type = "numbered_list_item" THEN <<indent \o NUMBER_PREFIX \o content>>
       ELSE <<>>

\* convertBlocksToMarkdown, lines 165-210: the lines one block pushes
BlockLines(block) ==
    LET content == FirstContent(block)
        indent == Indent(block.depth)
    IN IF block.type = "embed" THEN <<>>
       ELSE IF block.type = "heading_1"
            THEN IF Truthy(content) THEN <<H1_PREFIX \o content>> ELSE <<>>
       ELSE IF block.type = "heading_2"
            THEN IF Truthy(content) THEN <<H2_PREFIX \o content>> ELSE <<>>
       ELSE IF block.type = "heading_3"
            THEN IF Truthy(content) THEN <<H3_PREFIX \o content>> ELSE <<>>
       ELSE IF block.type = "paragraph"
            THEN IF Truthy(content) THEN <<indent \o content>> ELSE << <<>> >>
       ELSE IF block.type = "bulleted_list_item"
            THEN IF Truthy(content) THEN <<indent \o BULLET_PREFIX \o content>> ELSE <<>>
       ELSE IF block.type = "numbered_list_item"
            THEN IF Truthy(content) THEN <<indent \o NUMBER_PREFIX \o content>> ELSE <<>>
       ELSE <<>>

\* convertBlocksToMarkdown, lines 162-211
RECURSIVE MarkdownLines(_)
MarkdownLines(bs) ==
    IF bs = <<>> THEN <<>>
    ELSE BlockLines(bs[1]) \o MarkdownLines(Tail(bs))

\* Array.prototype.join('\n')
RECURSIVE JoinNewline(_)
JoinNewline(ls) ==
    IF ls = <<>> THEN <<>>
    ELSE IF Len(ls) = 1 THEN ls[1]
    ELSE ls[1] \o <<"\n">> \o JoinNewline(Tail(ls))

convertBlocksToMarkdown(bs) == JoinNewline(MarkdownLines(bs))

(***************************************************************************)
(* PostWorkoutClient.splitContentByWorkoutSections                         *)
(***************************************************************************)
\* \w
WordChars == IdChars \ {"-"}
\* the white space trim removes from a text of several lines
TextSpaceChars == SpaceChars \cup {"\n"}

\* String.prototype.trim of a text that may hold line breaks
TrimText(s) ==
    LET keep == {i \in DOMAIN s : s[i] \notin TextSpaceChars}
    IN IF keep = {} THEN <<>>
       ELSE LET a == CHOOSE i \in keep : \A j \in keep : i <= j
                b == CHOOSE i \in keep : \A j \in keep : i >= j
            IN SubSeq(s, a, b)

\* a literal of a pattern with the /i flag at position i (p is in lower case)
PrefixAtIgnoreCase(t, i, p) ==
    /\ i + Len(p) - 1 <= Len(t)
    /\ \A k \in 1..Len(p) : ToLower(t[i + k - 1]) = p[k]

\* \b after the word character at position i - 1
BoundaryAt(t, i) == i > Len(t) \/ t[i] \notin WordChars

\* the position after \s* from position i
AfterSpaces(t, i) ==
    LET stops == {j \in i..Len(t) : ~IsSpace(t[j])}
    IN IF stops = {} THEN Len(t) + 1
       ELSE CHOOSE j \in stops : \A k \in stops : j <= k

\* the number of # a line starts with
LeadingHashes(t) ==
    LET stops == {j \in 1..Len(t) : t[j] # "#"}
    IN IF stops = {} THEN Len(t)
       ELSE (CHOOSE j \in stops : \A k \in stops : j <= k) - 1

OVERALL == <<"o","v","e","r","a","l","l">>
LOWER_BODY_WORDS == <<"l","o","w","e","r"," ","b","o","d","y">>
UPPER_BODY_WORDS == <<"u","p","p","e","r"," ","b","o","d","y">>
HASHES3 == <<"#","#","#">>
MaxHashes == 6

OVERALL_LABEL == <<"#","#","#"," ","O","v","e","r","a","l","l"," ","N","o","t","e","s",":">>
LOWER_BODY_LABEL == <<"#","#","#"," ","L","o","w","e","r"," ","B","o","d","y",":">>
UPPER_BODY_LABEL == <<"#","#","#"," ","U","p","p","e","r"," ","B","o","d","y",":">>

\* /^#{1,6}\s*overall/i
MatchesOverallHeading(t) ==
    /\ LeadingHashes(t) >= 1
    /\ LeadingHashes(t) <= MaxHashes
    /\ PrefixAtIgnoreCase(t, AfterSpaces(t, LeadingHashes(t) + 1), OVERALL)

\* /^overall\b/i
MatchesOverallWord(t) ==
    /\ PrefixAtIgnoreCase(t, 1, OVERALL)
    /\ BoundaryAt(t, Len(OVERALL) + 1)

\* /^###\s*lower body\b/i and /^###\s*upper body\b/i
MatchesBodyHeading(t, words) ==
    /\ PrefixAt(t, 1, HASHES3)
    /\ LET j == AfterSpaces(t, Len(HASHES3) + 1)
       IN /\ PrefixAtIgnoreCase(t, j, words)
          /\ BoundaryAt(t, j + Len(words))

\* the bucket a line opens ("none" when the line is no recognized header)
HeaderOf(line) ==
    LET trimmedLine == Trim(line)
    IN IF MatchesOverallHeading(trimmedLine) \/ MatchesOverallWord(trimmedLine) THEN "overall"
       ELSE IF MatchesBodyHeading(trimmedLine, LOWER_BODY_WORDS) THEN "lower"
       ELSE IF MatchesBodyHeading(trimmedLine, UPPER_BODY_WORDS) THEN "upper"
       ELSE "none"

SplitStart ==
    [overallLines |-> <<>>, lowerBodyLines |-> <<>>, upperBodyLines |-> <<>>,
     currentSection |-> "none"]

\* variant: the trimmed line is pushed
SplitLineAt_Trimmed(st, line, header) ==
    IF header = "overall"
    THEN [st EXCEPT !.currentSection = "overall",
                    !.overallLines = IF @ = <<>> THEN <<OVERALL_LABEL>> ELSE @]
    ELSE IF header = "lower"
    THEN [st EXCEPT !.currentSection = "lower", !.lowerBodyLines = Append(@, LOWER_BODY_LABEL)]
    ELSE IF header = "upper"
    THEN [st EXCEPT !.currentSection = "upper", !.upperBodyLines = Append(@, UPPER_BODY_LABEL)]
    ELSE IF st.currentSection = "overall" THEN [st EXCEPT !.overallLines = Append(@, Trim(line))]
    ELSE IF st.currentSection = "lower" THEN [st EXCEPT !.lowerBodyLines = Append(@, Trim(line))]
    ELSE IF st.currentSection = "upper" THEN [st EXCEPT !.upperBodyLines = Append(@, Trim(line))]
    ELSE st

\* splitContentByWorkoutSections, lines 224-254: one line whose header kind is known
SplitLineAt(st, line, header) ==
    IF header = "overall"
    THEN [st EXCEPT !.currentSection = "overall",
                    !.overallLines = IF @ = <<>> THEN <<OVERALL_LABEL>> ELSE @]
    ELSE IF header = "lower"
    THEN [st EXCEPT !.currentSection = "lower", !.lowerBodyLines = Append(@, LOWER_BODY_LABEL)]
    ELSE IF header = "upper"
    THEN [st EXCEPT !.currentSection = "upper", !.upperBodyLines = Append(@, UPPER_BODY_LABEL)]
    ELSE IF st.currentSection = "overall" THEN [st EXCEPT !.overallLines = Append(@, line)]
    ELSE IF st.currentSection = "lower" THEN [st EXCEPT !.lowerBodyLines = Append(@, line)]
    ELSE IF st.currentSection = "upper" THEN [st EXCEPT !.upperBodyLines = Append(@, line)]
    ELSE st

\* splitContentByWorkoutSections, lines 223-255
RECURSIVE SplitLoop(_, _)
SplitLoop(st, ls) ==
    IF ls = <<>> THEN st
    ELSE SplitLoop(SplitLineAt(st, ls[1], HeaderOf(ls[1])), Tail(ls))

\* splitContentByWorkoutSections, lines 257-261
WorkoutContentOf(st) ==
    [overallNotes |-> TrimText(JoinNewline(st.overallLines)),
     lowerBody |-> TrimText(JoinNewline(st.lowerBodyLines)),
     upperBody |-> TrimText(JoinNewline(st.upperBodyLines))]

splitContentByWorkoutSections(markdownContent) ==
    WorkoutContentOf(SplitLoop(SplitStart, SplitLines(markdownContent)))

(***************************************************************************)
(* post-workout: the extracted blocks are converted, the text is split     *)
(***************************************************************************)
T_LOWER == <<"L","o","w","e","r"," ","B","o","d","y",":">>
T_OVERALL == <<"O","v","e","r","a","l","l">>
T_SQUATS == <<"S","q","u","a","t","s"," ","x","1","0">>
T_SETS == <<"3","x","5">>
T_HEAVY == <<" ","h","e","a","v","y">>
T_RUN == <<"R","u","n">>

\* the kinds and rich texts of the blocks of a page
BlockKinds ==
    {<<"heading_3", <<TextRun(T_LOWER)>> >>,
     <<"heading_2", <<TextRun(T_OVERALL)>> >>,
     <<"heading_1", <<MentionRun>> >>,
     <<"paragraph", <<TextRun(T_SQUATS)>> >>,
     <<"paragraph", <<>> >>,
     <<"bulleted_list_item", <<TextRun(T_SETS), TextRun(T_HEAVY)>> >>,
     <<"numbered_list_item", <<TextRun(T_RUN)>> >>,
     <<"embed", <<>> >>,
     <<"toggle", <<>> >>}

\* the kinds of block that can hold child blocks
ParentKinds == {"paragraph", "bulleted_list_item", "numbered_list_item", "toggle"}

MaxMdBlocks == 3

\* the depths of a pre-order listing: the first block at depth 0, each next block
\* at most one level below the one before
DepthSeqs(n) ==
    {d \in [1..n -> 0..n] : \A i \in 1..n : IF i = 1 THEN d[i] = 0 ELSE d[i] <= d[i - 1] + 1}

\* the block above block i in a pre-order listing: the nearest one before it that
\* is one level up
ParentIn(bs, i) ==
    LET above == {j \in 1..(i - 1) : bs[j].depth = bs[i].depth - 1}
    IN bs[CHOOSE j \in above : \A k \in above : j >= k]

\* a pre-order listing of blocks of the given kinds at the given depths
BlockList(kinds, depths) ==
    [i \in DOMAIN kinds |-> Block(kinds[i][1], depths[i], kinds[i][2])]

\* every block below the top level lies below a block that can hold children
WellNested(bs) ==
    \A i \in DOMAIN bs : bs[i].depth > 0 => ParentIn(bs, i).type \in ParentKinds

M_LOWER == <<"#","#","#"," ","L","o","w","e","r"," ","B","o","d","y",":">>
M_UPPER == <<"#","#","#"," ","U","p","p","e","r"," ","B","o","d","y",":">>
M_SQUATS == <<"S","q","u","a","t","s"," ","x","1","0">>
M_PUSHUPS == <<"P","u","s","h","-","u","p","s"," ","x","1","0">>
M_OVERALL_H2 == <<"#","#"," ","O","v","e","r","a","l","l">>
M_OVERALL_WORD == <<"o","v","e","r","a","l","l">>
M_OVERALLS == <<"o","v","e","r","a","l","l","s"," ","o","k">>
M_INDENTED == <<" "," ","-"," ","3","x","5"," ">>
M_TIGHT == <<"#","#","#","u","p","p","e","r"," ","b","o","d","y">>
M_DEEP == <<"#","#","#","#"," ","l","o","w","e","r"," ","b","o","d","y">>
M_LOOKALIKE == <<"#","#","#"," ","L","O","W","E","R"," ","B","O","D","Y","W","E","I","G","H","T">>

\* lines of text a page may hold, each in a paragraph of its own
MarkdownLineVocab ==
    {M_LOWER, M_UPPER, M_SQUATS, M_OVERALL_H2, M_OVERALL_WORD, M_OVERALLS,
     M_INDENTED, M_TIGHT, M_DEEP, M_LOOKALIKE, <<>>}

MaxMdLines == 3

ParagraphOf(line) ==
    Block("paragraph", 0, IF line = <<>> THEN <<>> ELSE <<TextRun(line)>>)

ParagraphList(ls) == [i \in DOMAIN ls |-> ParagraphOf(ls[i])]

\* the example page: two body headings, each with one line
EXAMPLE_LINES == <<M_LOWER, M_SQUATS, M_UPPER, M_PUSHUPS>>

InitMarkdown ==
    /\ pc = "convert"
    /\ \/ \E n \in 0..MaxMdBlocks :
            \E kinds \in [1..n -> BlockKinds], depths \in DepthSeqs(n) :
                /\ mdBlocks = BlockList(kinds, depths)
                /\ WellNested(mdBlocks)
       \/ \E n \in 1..MaxMdLines :
            \E ls \in [1..n -> MarkdownLineVocab] : mdBlocks = ParagraphList(ls)
       \/ mdBlocks = ParagraphList(EXAMPLE_LINES)
    /\ markdownLines = <<>> /\ markdown = <<>> /\ workoutContent = Null
    /\ IdleLinks /\ IdleParse /\ IdleGrid /\ IdleSessions /\ IdleDeliver
    /\ IdleExtract /\ IdleCommand /\ IdleCellRef

UnchangedByMarkdown ==
    UNCHANGED <<mdBlocks, linkVars, parseVars, gridVars, sessions, deliverVars, extractVars,
                commandVars, cellRefVars>>

\* post-workout main, line 377
ConvertBlocksToMarkdown ==
    /\ pc = "convert"
    /\ markdownLines' = MarkdownLines(mdBlocks)
    /\ markdown' = JoinNewline(markdownLines')
    /\ pc' = "split"
    /\ UNCHANGED workoutContent
    /\ UnchangedByMarkdown

\* post-workout main, line 380
SplitContentByWorkoutSections ==
    /\ pc = "split"
    /\ workoutContent' = splitContentByWorkoutSections(markdown)
    /\ pc' = "split_done"
    /\ UNCHANGED <<markdownLines, markdown>>
    /\ UnchangedByMarkdown

NextMarkdown == ConvertBlocksToMarkdown \/ SplitContentByWorkoutSections

SpecMarkdown == InitMarkdown /\ [][NextMarkdown]_vars

(***************************************************************************)
(* The commands create-week and create-day: main                           *)
(***************************************************************************)
\* the values of data.currentWeekNumber in config.json (Null: absent or no number)
WeekNumbers == {[number |-> 9], [number |-> 10]}

\* config.notion: which of its keys are set (Null: config.notion itself is absent)
NotionSections == [token : BOOLEAN, parentPageId : BOOLEAN]

\* config.json: which defaults are set, the week counter, the notion section
Configs ==
    [defaults : [sheetOwner : BOOLEAN, sheetTitle : BOOLEAN, cellRange : BOOLEAN],
     data : [currentWeekNumber : WeekNumbers \cup {Null}],
     notion : NotionSections \cup {Null}]

Commands == {"create-week", "create-day", "post-workout"}

\* the options given on the command line (cell: --cell-range or --session-cell)
Options ==
    [sheetOwner : BOOLEAN, sheetTitle : BOOLEAN, cell : BOOLEAN, dryRun : BOOLEAN,
     notionPage : BOOLEAN, test : BOOLEAN]

\* the options the program of a command declares
OptionsOf(cmd) ==
    {o \in Options : IF cmd = "post-workout" THEN ~o.dryRun
                                              ELSE ~o.notionPage /\ ~o.test}

\* options.sheetOwner || config.defaults?.sheetOwner, and the like
HasSheetOwner == options.sheetOwner \/ config.defaults.sheetOwner
HasSheetTitle == options.sheetTitle \/ config.defaults.sheetTitle
\* create-week: options.cellRange || config.defaults?.cellRange; create-day: options.sessionCell
HasCell ==
    IF command = "create-week" THEN options.cell \/ config.defaults.cellRange
    ELSE options.cell

\* `Week ${nextWeekNumber} with Kyle Habdo`, and formatDateM_D_YYYY(today)
WeekTitle(n) == [week |-> n]
DayTitle == [date |-> "today"]

\* the most runs of the commands in a row
MaxRuns == 2

InitCommand ==
    /\ pc = "load_config"
    /\ command \in Commands
    /\ options \in OptionsOf(command)
    /\ config \in Configs
    /\ remoteCalls = <<>> /\ reported = <<>> /\ exitCode = Null
    /\ pageTitle = Null /\ pages = <<>> /\ runs = 1
    /\ firstWeekNumber = config.data.currentWeekNumber
    /\ IdleLinks /\ IdleParse /\ IdleGrid /\ IdleSessions /\ IdleDeliver
    /\ IdleExtract /\ IdleMarkdown /\ IdleCellRef

UnchangedByCommand ==
    UNCHANGED <<command, options, runs, firstWeekNumber, linkVars, parseVars, gridVars, sessions, deliverVars,
                extractVars, markdownVars, cellRefVars>>

\* process.exit(code) after the console.error or console.log of the messages
Exit(code, message) ==
    /\ exitCode' = code
    /\ reported' = reported \o message
    /\ pc' = "exited"

\* the step goes on to the next one
GoTo(next) == pc' = next /\ UNCHANGED <<reported, exitCode>>

\* main: loadConfig and the check of the arguments (create-week 50-64, create-day 46-59,
\* post-workout 345-360)
CheckArguments ==
    /\ pc = "load_config"
    /\ IF ~HasSheetOwner \/ ~HasSheetTitle \/ ~HasCell
          \/ (command = "post-workout" /\ ~options.notionPage)
       THEN Exit(1, <<"Missing required arguments">>)
       ELSE GoTo(IF command = "create-week" THEN "check_week"
                 ELSE IF command = "create-day" THEN "authenticate"
                 ELSE "connect_notion")
    /\ UNCHANGED <<config, remoteCalls, pageTitle, pages>>
    /\ UnchangedByCommand

\* create-week main, lines 66-69
CheckWeekNumber ==
    /\ pc = "check_week"
    /\ IF config.data.currentWeekNumber = Null
       THEN Exit(1, <<"Missing data.currentWeekNumber">>)
       ELSE GoTo("authenticate")
    /\ UNCHANGED <<config, remoteCalls, pageTitle, pages>>
    /\ UnchangedByCommand

\* main: auth.authenticate() (create-week 71-73, create-day 61-63, post-workout 397-399)
Authenticate ==
    /\ pc = "authenticate"
    /\ remoteCalls' = Append(remoteCalls, "authenticate")
    /\ \/ GoTo("find_sheet")
       \/ Exit(1, <<"Error">>)
    /\ UNCHANGED <<config, pageTitle, pages>>
    /\ UnchangedByCommand

\* main: findSheetByOwnerAndTitle (create-week 77-83, create-day 67-73,
\* post-workout 403-409)
FindSheet ==
    /\ pc = "find_sheet"
    /\ remoteCalls' = Append(remoteCalls, "findSheetByOwnerAndTitle")
    /\ \/ GoTo(IF command = "post-workout" THEN "add_comment" ELSE "get_range")
       \/ Exit(1, <<"Sheet not found">>)
       \/ Exit(1, <<"Error">>)
    /\ UNCHANGED <<config, pageTitle, pages>>
    /\ UnchangedByCommand

\* main: getCellRange (create-week 88-89, create-day 78-84)
GetCellRange ==
    /\ pc = "get_range"
    /\ remoteCalls' = Append(remoteCalls, "getCellRange")
    /\ \/ GoTo("dry_run")
       \/ command = "create-day" /\ Exit(1, <<"No data found in the specified cell">>)
       \/ Exit(1, <<"Error">>)
    /\ UNCHANGED <<config, pageTitle, pages>>
    /\ UnchangedByCommand

\* variant: the dry run writes its file and the command goes on
DryRun_GoesOn ==
    /\ pc = "dry_run"
    /\ GoTo("connect_notion")
    /\ UNCHANGED <<config, remoteCalls, pageTitle, pages>>
    /\ UnchangedByCommand

\* main: if (options.dryRun) (create-week 99-104, create-day 92-97): the sessions
\* are written to dry-run-output.json, and a rejected writeFile is an error
DryRun ==
    /\ pc = "dry_run"
    /\ IF options.dryRun
       THEN Exit(0, <<>>) \/ Exit(1, <<"Error">>)
       ELSE GoTo("connect_notion")
    /\ UNCHANGED <<config, remoteCalls, pageTitle, pages>>
    /\ UnchangedByCommand

\* NotionClient.fromConfigFile: the constructor reads config.notion.token and
\* config.notion.parentPageId; it throws only if config.notion is absent
ConnectNotion ==
    /\ pc = "connect_notion"
    /\ IF config.notion = Null
       THEN Exit(1, <<"Error">>) /\ UNCHANGED pageTitle
       ELSE IF command = "create-week"
       THEN GoTo("save_config") /\ UNCHANGED pageTitle
       ELSE IF command = "create-day"
       THEN GoTo("create_page") /\ pageTitle' = DayTitle
       ELSE GoTo("find_page") /\ UNCHANGED pageTitle
    /\ UNCHANGED <<config, remoteCalls, pages>>
    /\ UnchangedByCommand

\* variant: the title gets the next week number, config.json is not written
SaveConfig_TitleOnly ==
    /\ pc = "save_config"
    /\ pageTitle' = WeekTitle(config.data.currentWeekNumber.number + 1)
    /\ GoTo("create_page")
    /\ UNCHANGED <<config, remoteCalls, pages>>
    /\ UnchangedByCommand

\* create-week main, lines 109-122: saveConfig with the next week number, then
\* the page title; a rejected writeFile ends the run
SaveConfig ==
    /\ pc = "save_config"
    /\ LET nextWeekNumber == config.data.currentWeekNumber.number + 1
       IN \/ /\ config' = [config EXCEPT !.data.currentWeekNumber.number = nextWeekNumber]
             /\ pageTitle' = WeekTitle(nextWeekNumber)
             /\ GoTo("create_page")
          \/ /\ Exit(1, <<"Error">>)
             /\ UNCHANGED <<config, pageTitle>>
    /\ UNCHANGED <<remoteCalls, pages>>
    /\ UnchangedByCommand

\* main: createWorkoutPage / createDayWorkoutPage (create-week 131, create-day 106);
\* the sink accepts the call only with a token and a parent page, and a later
\* append may still be rejected
CreatePage ==
    /\ pc = "create_page"
    /\ \/ /\ config.notion.token /\ config.notion.parentPageId
          /\ remoteCalls' = Append(remoteCalls, "pages.create")
          /\ pages' = Append(pages, pageTitle)
          /\ Exit(0, <<>>)
       \/ /\ config.notion.token /\ config.notion.parentPageId
          /\ remoteCalls' = remoteCalls \o <<"pages.create", "blocks.children.append">>
          /\ pages' = Append(pages, pageTitle)
          /\ Exit(1, <<"Error">>)
       \/ /\ remoteCalls' = Append(remoteCalls, "pages.create")
          /\ pages' = pages
          /\ Exit(1, <<"Error">>)
    /\ UNCHANGED <<config, pageTitle>>
    /\ UnchangedByCommand

\* post-workout main, lines 365-371: findNestedPage lists the children of the
\* parent page
FindNestedPage ==
    /\ pc = "find_page"
    /\ remoteCalls' = Append(remoteCalls, "blocks.children.list")
    /\ \/ config.notion.token /\ config.notion.parentPageId /\ GoTo("extract_content")
       \/ config.notion.token /\ config.notion.parentPageId
            /\ Exit(1, <<"Notion page not found in parent page">>)
       \/ Exit(1, <<"Error">>)
    /\ UNCHANGED <<config, pageTitle, pages>>
    /\ UnchangedByCommand

\* post-workout main, lines 373-381: extractPageContent, then the markdown and
\* its split
ExtractContent ==
    /\ pc = "extract_content"
    /\ remoteCalls' = Append(remoteCalls, "blocks.children.list")
    /\ \/ GoTo("test_mode")
       \/ Exit(1, <<"Error">>)
    /\ UNCHANGED <<config, pageTitle, pages>>
    /\ UnchangedByCommand

\* post-workout main, lines 382-395: if (options.test) the content is logged and
\* main returns
TestMode ==
    /\ pc = "test_mode"
    /\ IF options.test THEN Exit(0, <<>>) ELSE GoTo("authenticate")
    /\ UNCHANGED <<config, remoteCalls, pageTitle, pages>>
    /\ UnchangedByCommand

\* post-workout main, lines 413-424: addCommentToCell writes the note of the cell
PostComment ==
    /\ pc = "add_comment"
    /\ remoteCalls' = Append(remoteCalls, "spreadsheets.batchUpdate")
    /\ \/ Exit(0, <<>>)
       \/ Exit(1, <<"Error">>)
    /\ UNCHANGED <<config, pageTitle, pages>>
    /\ UnchangedByCommand

\* the command line is entered again: main() of the chosen command starts with
\* the config.json the earlier runs left
StartRun ==
    /\ pc = "exited"
    /\ runs < MaxRuns
    /\ runs' = runs + 1
    /\ command' \in Commands
    /\ options' \in OptionsOf(command')
    /\ remoteCalls' = <<>> /\ reported' = <<>> /\ exitCode' = Null /\ pageTitle' = Null
    /\ pc' = "load_config"
    /\ UNCHANGED <<config, pages, firstWeekNumber, linkVars, parseVars, gridVars, sessions,
                   deliverVars, extractVars, markdownVars, cellRefVars>>

NextCommand ==
    \/ CheckArguments \/ CheckWeekNumber
    \/ Authenticate \/ FindSheet \/ GetCellRange
    \/ DryRun \/ ConnectNotion \/ SaveConfig \/ CreatePage
    \/ FindNestedPage \/ ExtractContent \/ TestMode \/ PostComment
    \/ StartRun

SpecCommand == InitCommand /\ [][NextCommand]_vars

(***************************************************************************)
(* ExtendedGoogleSheetsClient.addCommentToCell: the cell reference         *)
(***************************************************************************)
\* the first match of a pattern <class>+ in t: the leftmost longest run of
\* characters of the class (Null when there is none)
FirstRun(t, class) ==
    LET hits == {i \in DOMAIN t : t[i] \in class}
    IN IF hits = {} THEN Null
       ELSE LET a == CHOOSE i \in hits : \A j \in hits : i <= j
                ends == {b \in a..Len(t) : \A k \in a..b : t[k] \in class}
                b == CHOOSE x \in ends : \A y \in ends : x >= y
            IN [match |-> SubSeq(t, a, b)]

DigitValue(c) == (CHOOSE i \in DOMAIN DigitSeq : DigitSeq[i] = c) - 1

\* letters.charCodeAt(i) - 64
LetterValue(c) == CHOOSE i \in DOMAIN UpperSeq : UpperSeq[i] = c

RECURSIVE parseInt(_)
\* parseInt of a string of decimal digits
parseInt(ds) ==
    IF ds = <<>> THEN 0
    ELSE parseInt(SubSeq(ds, 1, Len(ds) - 1)) * 10 + DigitValue(ds[Len(ds)])

getCellRowIndex(ref) ==
    LET found == FirstRun(ref, DigitChars)
    IN IF found # Null THEN parseInt(found.match) - 1 ELSE 0

RECURSIVE ColumnLoop_Sum(_, _, _)
\* variant: the running result is not multiplied by 26
ColumnLoop_Sum(letters, i, result) ==
    IF i > Len(letters) THEN result
    ELSE ColumnLoop_Sum(letters, i + 1, result + LetterValue(letters[i]))

RECURSIVE ColumnLoop(_, _, _)
\* getCellColumnIndex, lines 318-322
ColumnLoop(letters, i, result) ==
    IF i > Len(letters) THEN result
    ELSE ColumnLoop(letters, i + 1, result * 26 + LetterValue(letters[i]))

getCellColumnIndex(ref) ==
    LET found == FirstRun(ref, UpperChars)
    IN IF found = Null THEN 0 ELSE ColumnLoop(found.match, 1, 0) - 1

\* the letters and digits the references are written with
RefLetters == {"A", "B", "Z"}
RefDigits == {"0", "1", "2", "9"}
MaxRefLetters == 2
MaxRefDigits == 2

\* the cell references: letters followed by digits
CellReferences ==
    {ls \o ds : ls \in UNION {[1..n -> RefLetters] : n \in 1..MaxRefLetters},
                ds \in UNION {[1..n -> RefDigits] : n \in 1..MaxRefDigits}}

InitCellRef ==
    /\ pc = "add_comment"
    /\ cellReference \in CellReferences
    /\ range = Null
    /\ IdleLinks /\ IdleParse /\ IdleGrid /\ IdleSessions /\ IdleDeliver
    /\ IdleExtract /\ IdleMarkdown /\ IdleCommand

\* addCommentToCell, lines 275-305: the batchUpdate request and its outcome
AddCommentToCell ==
    /\ pc = "add_comment"
    /\ range' = [sheetId |-> 0,
                 startRowIndex |-> getCellRowIndex(cellReference),
                 endRowIndex |-> getCellRowIndex(cellReference) + 1,
                 startColumnIndex |-> getCellColumnIndex(cellReference),
                 endColumnIndex |-> getCellColumnIndex(cellReference) + 1]
    /\ pc' \in {"commented", "comment_failed"}
    /\ UNCHANGED <<cellReference, linkVars, parseVars, gridVars, sessions, deliverVars,
                   extractVars, markdownVars, commandVars>>

NextCellRef == AddCommentToCell

SpecCellRef == InitCellRef /\ [][NextCellRef]_vars

(***************************************************************************)
(* Properties of the link extractor                                        *)
(***************************************************************************)
\* C4: for every line, extracting links from the result of stripping links
\* is empty: extractYouTubeLinks(removeYouTubeLinks(line)) = [].
C4_StripThenExtractEmpty ==
    pc = "done" => extractYouTubeLinks(cleanedLine) = <<>>

\* C5: a line that is one URL of any of the three shapes, with or without
\* scheme and www., yields exactly one link, https://www.youtube.com/watch?v=<id>,
\* whatever the shape.
C5_CanonicalUrl ==
    pc # "extract" =>
        \A id \in Ids :
            \A s \in {<<>>, HTTP_SCHEME, HTTPS_SCHEME} :
                \A w \in {<<>>, WWW} :
                    \A h \in {HOST_WATCH, HOST_SHORTS, HOST_SHORT} :
                        text = s \o w \o h \o id =>
                            youtubeLinks = <<HTTPS_SCHEME \o WWW \o HOST_WATCH \o id>>

\* a schemeless shorts URL has been canonicalized
C5_Witness ==
    /\ pc = "remove"
    /\ text = HOST_SHORTS \o IdPool[2]
    /\ youtubeLinks = <<HTTPS_SCHEME \o WWW \o HOST_WATCH \o IdPool[2]>>

(***************************************************************************)
(* Properties of the section parser                                        *)
(***************************************************************************)
IsHeaderLine(l) == isSectionHeader(l) \/ isUpperLowerBody(l)

\* the non-blank lines of the cell, as written
InputLines == SelectSeq(SplitLines(cellContent), LAMBDA l : Trim(l) # <<>>)

Parsed == pc \in {"parsed", "rendered_day", "rendered_week"}

\* C2 (as claimed): a cell without any header line yields exactly one freeform
\* section if it has a non-blank line, and no section if every line is blank.
C2_OneFreeformSection ==
    (Parsed /\ \A k \in DOMAIN InputLines : ~IsHeaderLine(InputLines[k])) =>
        IF InputLines # <<>>
        THEN Len(sections) = 1 /\ sections[1].type = "text"
        ELSE sections = <<>>

\* C2 (amended): a cell without any header line yields one freeform section
\* per non-blank line, and no section if every line is blank.
C2_FreeformSectionPerLine ==
    (Parsed /\ \A k \in DOMAIN InputLines : ~IsHeaderLine(InputLines[k])) =>
        /\ Len(sections) = Len(InputLines)
        /\ \A k \in DOMAIN sections : sections[k].type = "text"

\* a cell of two non-blank lines and no header has been parsed into two sections
C2_Witness ==
    /\ Parsed
    /\ Len(InputLines) = 2
    /\ \A k \in DOMAIN InputLines : ~IsHeaderLine(InputLines[k])
    /\ Len(sections) = 2

\* the lines at which a section starts: every header line, and every line
\* before the first header line
SpanStarts(ls) ==
    {j \in DOMAIN ls :
        IsHeaderLine(ls[j]) \/ \A h \in DOMAIN ls : IsHeaderLine(ls[h]) => j < h}

RECURSIVE SortedSeq(_)
SortedSeq(S) ==
    IF S = {} THEN <<>>
    ELSE LET m == CHOOSE x \in S : \A y \in S : x <= y
         IN <<m>> \o SortedSeq(S \ {m})

\* the last line of the span that starts at line j
SpanEnd(ls, j) ==
    LET later == {h \in SpanStarts(ls) : h > j}
    IN IF later = {} THEN Len(ls) ELSE (CHOOSE x \in later : \A y \in later : x <= y) - 1

\* the text a line contributes: a header as it stands, any other line without
\* its URLs, if anything is left
TextOfLine(l) ==
    IF IsHeaderLine(l) THEN <<Trim(l)>>
    ELSE IF removeYouTubeLinks(l) # <<>> THEN <<removeYouTubeLinks(l)>> ELSE <<>>

RECURSIVE TextOfRange(_, _, _)
TextOfRange(ls, a, b) ==
    IF a > b THEN <<>> ELSE TextOfLine(ls[a]) \o TextOfRange(ls, a + 1, b)

\* the links of lines a..b; a header line counts only if withHeader
RECURSIVE LinksOfRange(_, _, _, _)
LinksOfRange(ls, a, b, withHeader) ==
    IF a > b THEN <<>>
    ELSE (IF IsHeaderLine(ls[a]) /\ ~withHeader THEN <<>> ELSE extractYouTubeLinks(ls[a]))
         \o LinksOfRange(ls, a + 1, b, withHeader)

\* header (if any) then content lines
SectionText(sec) ==
    (IF "header" \in DOMAIN sec THEN <<sec.header>> ELSE <<>>) \o sec.content

RECURSIVE AllLinks(_, _)
AllLinks(secs, i) ==
    IF i > Len(secs) THEN <<>> ELSE secs[i].youtubeLinks \o AllLinks(secs, i + 1)

\* C3: the sections, in output order, are the spans of the non-blank input
\* lines in input order: section k holds the text of the lines of span k in
\* line order, and the links of all sections, in section order, are the
\* links of the lines in line order.
C3_LineOrderPreserved ==
    Parsed =>
        LET starts == SortedSeq(SpanStarts(InputLines))
        IN /\ Len(sections) = Len(starts)
           /\ \A k \in DOMAIN sections :
                SectionText(sections[k])
                    = TextOfRange(InputLines, starts[k], SpanEnd(InputLines, starts[k]))
           /\ AllLinks(sections, 1) = LinksOfRange(InputLines, 1, Len(InputLines), FALSE)

\* a freeform line, then a header line, then a line with text and links
C3_Witness ==
    /\ Parsed
    /\ Len(InputLines) = 3
    /\ ~IsHeaderLine(InputLines[1])
    /\ isSectionHeader(InputLines[2])
    /\ Len(sections) = 2
    /\ sections[1].type = "text"
    /\ Len(sections[2].content) = 1
    /\ Len(sections[2].youtubeLinks) = 2

AllSections ==
    Range(sections) \cup (IF currentSection # Null THEN {currentSection} ELSE {})

\* C8: at every point of a parse, a labeled or grouped section has a non-empty
\* header, a freeform section has no header, and every content line is
\* non-empty and trimmed.
C8_HeaderAndContentShape ==
    \A sec \in AllSections :
        /\ sec.type \in {"section", "upper_lower"} =>
                "header" \in DOMAIN sec /\ sec.header # <<>>
        /\ sec.type = "text" => "header" \notin DOMAIN sec
        /\ \A k \in DOMAIN sec.content :
                sec.content[k] # <<>> /\ Trim(sec.content[k]) = sec.content[k]

\* a parse gave a freeform section and a labeled section with a content line
C8_Witness ==
    /\ Parsed
    /\ \E a, b \in DOMAIN sections :
        /\ sections[a].type = "text" /\ Len(sections[a].content) = 1
        /\ sections[b].type = "upper_lower" /\ Len(sections[b].content) = 1

\* C9 (as claimed): a section's videoLinks are the canonical URLs of every
\* match in all the lines of the section's span, the header line included.
C9_LinksOfAllSpanLines ==
    Parsed =>
        LET starts == SortedSeq(SpanStarts(InputLines))
        IN \A k \in DOMAIN sections :
            k \in DOMAIN starts =>
                sections[k].youtubeLinks
                    = LinksOfRange(InputLines, starts[k], SpanEnd(InputLines, starts[k]), TRUE)

\* C9 (amended): a section's videoLinks are the canonical URLs of every match
\* in the lines of the section's span other than its header line, in the
\* order found.
C9_LinksOfContentLines ==
    Parsed =>
        LET starts == SortedSeq(SpanStarts(InputLines))
        IN /\ Len(sections) = Len(starts)
           /\ \A k \in DOMAIN sections :
                sections[k].youtubeLinks
                    = LinksOfRange(InputLines, starts[k], SpanEnd(InputLines, starts[k]), FALSE)

\* a section that gathered the links of two of its lines, three links in all
C9_Witness ==
    /\ Parsed
    /\ \E k \in DOMAIN sections :
        /\ sections[k].type = "section"
        /\ Len(sections[k].youtubeLinks) = 3
        /\ Len(sections[k].content) = 1

(***************************************************************************)
(* Properties of the block renderer                                        *)
(***************************************************************************)
\* the number of blocks a section is rendered to
SectionSize(sec) ==
    (IF "header" \in DOMAIN sec THEN 1 ELSE 0) + Len(sec.content) + Len(sec.youtubeLinks)

\* the number of blocks of the sections before section k
RECURSIVE BlocksBefore(_, _)
BlocksBefore(secs, k) ==
    IF k <= 1 THEN 0 ELSE BlocksBefore(secs, k - 1) + SectionSize(secs[k - 1])

IsTextBlock(b, kind, t) == b.type = kind /\ "content" \in DOMAIN b /\ b.content = t
IsEmbedBlock(b, u) == b.type = "embed" /\ "url" \in DOMAIN b /\ b.url = u

\* blocks base+1 .. base+n are one block of kind headKind with the header (if
\* headKind is given), one block of kind lineKind per content line, then one
\* embed per link
SectionLayout(bs, base, sec, headKind, lineKind) ==
    LET h == IF headKind = "" THEN 0 ELSE 1
        c == Len(sec.content)
    IN /\ base + h + c + Len(sec.youtubeLinks) <= Len(bs)
       /\ h = 1 => IsTextBlock(bs[base + 1], headKind, sec.header)
       /\ \A i \in 1..c : IsTextBlock(bs[base + h + i], lineKind, sec.content[i])
       /\ \A i \in 1..Len(sec.youtubeLinks) :
            IsEmbedBlock(bs[base + h + c + i], sec.youtubeLinks[i])

\* C6: in the single-session rendering, a labeled section is one paragraph
\* with the header, one bullet per content line in order, then one embed per
\* link in order, placed after the blocks of the sections before it and before
\* those of the sections after it; 'A. Warm-up / 5 min cardio /
\* https://youtu.be/abc12345678' gives paragraph, bullet, embed of the
\* canonical URL.
C6_LabeledSectionBlocks ==
    pc = "rendered_day" =>
        /\ \A k \in DOMAIN sections :
            sections[k].type = "section" =>
                SectionLayout(blocks, BlocksBefore(sections, k), sections[k],
                              "paragraph", "bulleted_list_item")
        /\ Len(blocks) = BlocksBefore(sections, Len(sections) + 1)
        /\ cellContent = JoinLines(<<L_LABELED, L_PLAIN, L_LINK>>) =>
            /\ Len(blocks) = 3
            /\ IsTextBlock(blocks[1], "paragraph", L_LABELED)
            /\ IsTextBlock(blocks[2], "bulleted_list_item", L_PLAIN)
            /\ IsEmbedBlock(blocks[3], CANONICAL_PREFIX \o IdPool[1])

\* a labeled section with a content line and two links, followed by another
\* section, has been rendered
C6_Witness ==
    /\ pc = "rendered_day"
    /\ Len(sections) = 2
    /\ sections[1].type = "section"
    /\ Len(sections[1].content) = 1
    /\ Len(sections[1].youtubeLinks) = 2
    /\ Len(blocks) = 5

\* C7: in the multi-session rendering, a grouped section is one heading_3 with
\* the header then one bullet per content line, a freeform section is one
\* paragraph per content line and no header block, and for every kind one
\* embed per link follows the section's content blocks.
C7_BlockKindsBySectionKind ==
    pc = "rendered_week" =>
        /\ \A k \in DOMAIN sections :
            LET base == 1 + BlocksBefore(sections, k)
            IN /\ sections[k].type = "upper_lower" =>
                    SectionLayout(blocks, base, sections[k], "heading_3", "bulleted_list_item")
               /\ sections[k].type = "text" =>
                    SectionLayout(blocks, base, sections[k], "", "paragraph")
               /\ sections[k].type = "section" =>
                    \A i \in 1..Len(sections[k].youtubeLinks) :
                        IsEmbedBlock(blocks[base + 1 + Len(sections[k].content) + i],
                                     sections[k].youtubeLinks[i])
        /\ Len(blocks) = 1 + BlocksBefore(sections, Len(sections) + 1)

\* a freeform section with text and links and a grouped section with a
\* content line have been rendered
C7_Witness ==
    /\ pc = "rendered_week"
    /\ \E a, b \in DOMAIN sections :
        /\ sections[a].type = "text"
        /\ Len(sections[a].content) = 1 /\ Len(sections[a].youtubeLinks) = 2
        /\ sections[b].type = "upper_lower"
        /\ Len(sections[b].content) = 1 /\ Len(sections[b].youtubeLinks) = 2

(***************************************************************************)
(* Properties of the batch parse                                           *)
(***************************************************************************)
\* the cell at row r, column c (from 1) is a non-empty string whose parse
\* yields a section
Emits(r, c) ==
    /\ cellData[r][c].kind = "string"
    /\ cellData[r][c].value # <<>>
    /\ parseSingleCell(cellData[r][c].value).sections # <<>>

EmittingCells == {rc \in UNION {{<<r, c>> : c \in DOMAIN cellData[r]} : r \in DOMAIN cellData} :
                    Emits(rc[1], rc[2])}

RowMajorBefore(a, b) == a[1] < b[1] \/ (a[1] = b[1] /\ a[2] < b[2])

RECURSIVE RowMajorSeq(_)
RowMajorSeq(S) ==
    IF S = {} THEN <<>>
    ELSE LET m == CHOOSE x \in S : \A y \in S \ {x} : RowMajorBefore(x, y)
         IN <<m>> \o RowMajorSeq(S \ {m})

UniformRows == \A r1, r2 \in DOMAIN cellData : Len(cellData[r1]) = Len(cellData[r2])

\* C10: the sessions are those of the cells, in row-major order, that are
\* non-empty strings whose parse yields a section; the cell at zero-based row r
\* and column c gets the number r * (length of row r) + c + 1; the numbers
\* increase strictly when all rows have the same length.
C10_PositionalSessionNumbers ==
    (pc \in {"parsed", "rendered_week"}) =>
        LET cells == RowMajorSeq(EmittingCells)
        IN /\ Len(sessions) = Len(cells)
           /\ \A k \in DOMAIN sessions :
                LET r == cells[k][1]
                    c == cells[k][2]
                IN /\ sessions[k].sessionNumber = (r - 1) * Len(cellData[r]) + (c - 1) + 1
                   /\ sessions[k].sections = parseSingleCell(cellData[r][c].value).sections
           /\ UniformRows =>
                \A k \in 1..(Len(sessions) - 1) :
                    sessions[k].sessionNumber < sessions[k + 1].sessionNumber

\* rows of different lengths gave two sessions the same number, and cells that
\* are not strings or hold no section were skipped
C10_Witness ==
    /\ pc = "parsed"
    /\ Len(cellData) = 2
    /\ Len(cellData[1]) = 3
    /\ Len(cellData[2]) = 1
    /\ cellData[1][1].kind = "number"
    /\ Len(sessions) = 2
    /\ sessions[1].sessionNumber = sessions[2].sessionNumber

(***************************************************************************)
(* Properties of page delivery                                             *)
(***************************************************************************)
\* the calls a full delivery of the blocks bs makes: one creation with the
\* first 100 blocks, then one append per further group of at most 100
ExpectedCalls(bs) ==
    LET n == Len(bs)
        appends == ((IF n > 100 THEN n - 100 ELSE 0) + 99) \div 100
    IN <<[op |-> "create", children |-> SubSeq(bs, 1, IF n < 100 THEN n ELSE 100)]>>
       \o [k \in 1..appends |->
             [op |-> "append", block_id |-> PAGE_ID,
              children |-> SubSeq(bs, 100 * k + 1, IF n < 100 * k + 100 THEN n ELSE 100 * k + 100)]]

RECURSIVE ChildrenOf(_, _)
ChildrenOf(cs, i) ==
    IF i > Len(cs) THEN <<>> ELSE cs[i].children \o ChildrenOf(cs, i + 1)

\* C1: the calls issued are, at every point, the first calls of: one creation
\* with the first min(n, 100) blocks, then ceil(max(0, n - 100) / 100) appends
\* to the created page with the next groups of at most 100 blocks; a completed
\* delivery has issued them all and their blocks, in call order, are the
\* rendered blocks; a call is issued only after every earlier call completed.
C1_ChunkedDelivery ==
    pc \notin {"build_week", "build_day"} =>
        /\ Len(calls) <= Len(ExpectedCalls(allBlocks))
        /\ calls = SubSeq(ExpectedCalls(allBlocks), 1, Len(calls))
        /\ pc = "done" =>
            /\ calls = ExpectedCalls(allBlocks)
            /\ ChildrenOf(calls, 1) = allBlocks
        /\ inflight # Null => inflight = calls[Len(calls)]
        /\ Len(calls) = completed + (IF inflight # Null THEN 1 ELSE 0)
                                  + (IF pc = "failed" THEN 1 ELSE 0)

\* 250 blocks were delivered by a creation with 100 and appends of 100 and 50
C1_Witness ==
    /\ pc = "done"
    /\ Len(allBlocks) = 250
    /\ Len(calls) = 3
    /\ calls[1].op = "create" /\ Len(calls[1].children) = 100
    /\ calls[2].op = "append" /\ Len(calls[2].children) = 100
    /\ calls[3].op = "append" /\ Len(calls[3].children) = 50

(***************************************************************************)
(* Properties of the block tree walk                                       *)
(***************************************************************************)
TreeNodes == DOMAIN tree \ {ROOT}

ParentOf(c) == CHOOSE b \in DOMAIN tree : \E k \in DOMAIN tree[b] : tree[b][k] = c

RECURSIVE IsBelow(_, _)
\* block c lies in the subtree below block b
IsBelow(c, b) ==
    IF c = ROOT THEN FALSE
    ELSE ParentOf(c) = b \/ IsBelow(ParentOf(c), b)

DescendantsOf(b) == {c \in TreeNodes : IsBelow(c, b)}

PositionOf(out, b) == CHOOSE i \in DOMAIN out : out[i].id = b

\* C11: extractPageContent returns the pre-order listing of all blocks below the
\* root: every block once, each followed immediately by exactly its descendants,
\* siblings in fetched order, and each block at its parent's depth plus one (the
\* root's children at depth 0).
C11_PreOrderWithDepth ==
    pc = "extracted" =>
        /\ Len(extracted) = Cardinality(TreeNodes)
        /\ \A b \in TreeNodes : \E i \in DOMAIN extracted : extracted[i].id = b
        /\ \A b \in TreeNodes :
            LET i == PositionOf(extracted, b)
                under == DescendantsOf(b)
            IN /\ i + Cardinality(under) <= Len(extracted)
               /\ {extracted[j].id : j \in (i + 1)..(i + Cardinality(under))} = under
               /\ extracted[i].depth =
                    IF ParentOf(b) = ROOT THEN 0
                    ELSE extracted[PositionOf(extracted, ParentOf(b))].depth + 1
        /\ \A p \in DOMAIN tree : \A u, v \in DOMAIN tree[p] :
            u < v => PositionOf(extracted, tree[p][u]) < PositionOf(extracted, tree[p][v])

\* a block with two children fetched in two pages, one of them with a child of its own
C11_Witness ==
    /\ pc = "extracted"
    /\ \E i \in DOMAIN extracted : extracted[i].depth = 2
    /\ \E k \in DOMAIN fetches :
        fetches[k].block_id # ROOT /\ fetches[k].start_cursor # Null

(***************************************************************************)
(* Properties of the markdown conversion                                   *)
(***************************************************************************)
HeadingKinds == {"heading_1", "heading_2", "heading_3"}
MappedKinds == HeadingKinds \cup {"paragraph", "bulleted_list_item", "numbered_list_item"}

KindPrefix(type) ==
    IF type = "heading_1" THEN H1_PREFIX
    ELSE IF type = "heading_2" THEN H2_PREFIX
    ELSE IF type = "heading_3" THEN H3_PREFIX
    ELSE IF type = "bulleted_list_item" THEN BULLET_PREFIX
    ELSE IF type = "numbered_list_item" THEN NUMBER_PREFIX
    ELSE <<>>

\* the blocks that have a line in the output: paragraphs, and blocks of the other
\* mapped kinds whose first run holds text
HasLine(block) ==
    block.type \in MappedKinds /\ (block.type = "paragraph" \/ Truthy(FirstContent(block)))

\* the index of block i's line among the emitted lines
LineIndex(i) == Cardinality({j \in 1..i : HasLine(mdBlocks[j])})

Converted == pc \in {"split", "split_done"}

\* C12 (as claimed): every block of a mapped kind with text (in its first run) at
\* depth d gives the line of 2*d spaces, the kind's prefix, and the text.
C12_IndentPrefixText ==
    Converted =>
        \A i \in DOMAIN mdBlocks :
            LET block == mdBlocks[i]
            IN (block.type \in MappedKinds /\ Truthy(FirstContent(block))) =>
                /\ LineIndex(i) \in DOMAIN markdownLines
                /\ markdownLines[LineIndex(i)] =
                       Indent(block.depth) \o KindPrefix(block.type) \o FirstContent(block)

\* C12 (amended): a paragraph or list item whose first run holds text gives the
\* line of 2*d spaces, the kind's prefix and the content of that first run; a
\* heading gives its prefix and that content with no indentation at any depth.
C12_IndentExceptHeadings ==
    Converted =>
        \A i \in DOMAIN mdBlocks :
            LET block == mdBlocks[i]
            IN (block.type \in MappedKinds /\ Truthy(FirstContent(block))) =>
                /\ LineIndex(i) \in DOMAIN markdownLines
                /\ markdownLines[LineIndex(i)] =
                       (IF block.type \in HeadingKinds THEN <<>> ELSE Indent(block.depth))
                       \o KindPrefix(block.type) \o FirstContent(block)

\* a heading and a list item, both with text, below the top level
C12_Witness ==
    /\ Converted
    /\ \E i, j \in DOMAIN mdBlocks :
        /\ mdBlocks[i].type \in HeadingKinds /\ mdBlocks[i].depth > 0
        /\ Truthy(FirstContent(mdBlocks[i]))
        /\ mdBlocks[j].type = "bulleted_list_item" /\ mdBlocks[j].depth > 0
        /\ Truthy(FirstContent(mdBlocks[j]))

IsSuffix(t, line) ==
    Len(t) <= Len(line) /\ SubSeq(line, Len(line) - Len(t) + 1, Len(line)) = t

\* C13: an embed block or a block of an unmapped kind gives no line, a paragraph
\* with no text content gives an empty line, and the lines of the other blocks
\* come in block order.
C13_SkippedEmptyAndOrder ==
    Converted =>
        /\ Len(markdownLines) =
             Cardinality({i \in DOMAIN mdBlocks :
                             /\ mdBlocks[i].type \in MappedKinds
                             /\ \/ mdBlocks[i].type = "paragraph"
                                \/ Truthy(FirstContent(mdBlocks[i]))})
        /\ \A i \in DOMAIN mdBlocks :
            LET block == mdBlocks[i]
            IN /\ (block.type = "paragraph" /\ ~Truthy(FirstContent(block))) =>
                    markdownLines[LineIndex(i)] = <<>>
               /\ (block.type \in MappedKinds /\ Truthy(FirstContent(block))) =>
                    IsSuffix(FirstContent(block), markdownLines[LineIndex(i)])
        /\ markdown = JoinNewline(markdownLines)

\* an empty paragraph and a skipped block before a block with text
C13_Witness ==
    /\ Converted
    /\ \E i, j, k \in DOMAIN mdBlocks :
        /\ i < k /\ j < k
        /\ mdBlocks[i].type \notin MappedKinds
        /\ mdBlocks[j].type = "paragraph" /\ ~Truthy(FirstContent(mdBlocks[j]))
        /\ mdBlocks[k].type \in MappedKinds /\ Truthy(FirstContent(mdBlocks[k]))

(***************************************************************************)
(* Properties of the split into buckets                                    *)
(***************************************************************************)
MarkdownInput == SplitLines(markdown)

\* the bucket of the most recent recognized header at or before line i
RecentHeader(ls, i) ==
    LET hs == {j \in 1..i : HeaderOf(ls[j]) # "none"}
    IN IF hs = {} THEN "none"
       ELSE HeaderOf(ls[CHOOSE j \in hs : \A k \in hs : j >= k])

BucketLabel(bucket) ==
    IF bucket = "overall" THEN OVERALL_LABEL
    ELSE IF bucket = "lower" THEN LOWER_BODY_LABEL
    ELSE UPPER_BODY_LABEL

RECURSIVE ExpectedBucket(_, _, _, _)
\* the lines of a bucket after the first n lines: its label where its header is
\* seen (only at its first header if once), and the other lines routed to it
ExpectedBucket(ls, n, bucket, once) ==
    IF n = 0 THEN <<>>
    ELSE LET before == ExpectedBucket(ls, n - 1, bucket, once)
         IN IF HeaderOf(ls[n]) = bucket
            THEN IF once /\ before # <<>> THEN before ELSE Append(before, BucketLabel(bucket))
            ELSE IF HeaderOf(ls[n]) = "none" /\ RecentHeader(ls, n) = bucket
            THEN Append(before, ls[n])
            ELSE before

ExpectedContent(ls, overallOnce) ==
    [overallNotes |-> TrimText(JoinNewline(ExpectedBucket(ls, Len(ls), "overall", overallOnce))),
     lowerBody |-> TrimText(JoinNewline(ExpectedBucket(ls, Len(ls), "lower", FALSE))),
     upperBody |-> TrimText(JoinNewline(ExpectedBucket(ls, Len(ls), "upper", FALSE)))]

\* C14 (as claimed): each bucket is the trimmed text of its label, put where its
\* header is seen, and of the other lines, verbatim, that follow its header most
\* recently; lines before any header are dropped and an empty bucket is ''.
C14_LabelAtEveryHeader ==
    pc = "split_done" => workoutContent = ExpectedContent(MarkdownInput, FALSE)

\* C14 (amended): as claimed, but the overall bucket gets its label only at the
\* first overall header; a later overall header adds nothing to it.
C14_OverallLabelOnce ==
    pc = "split_done" =>
        /\ workoutContent = ExpectedContent(MarkdownInput, TRUE)
        /\ markdown = JoinNewline(EXAMPLE_LINES) =>
            workoutContent = [overallNotes |-> <<>>,
                              lowerBody |-> JoinNewline(<<LOWER_BODY_LABEL, M_SQUATS>>),
                              upperBody |-> JoinNewline(<<UPPER_BODY_LABEL, M_PUSHUPS>>)]

\* the example of the claim, split
C14_Witness ==
    /\ pc = "split_done"
    /\ markdown = JoinNewline(EXAMPLE_LINES)
    /\ workoutContent.overallNotes = <<>>

(***************************************************************************)
(* The two renderers                                                       *)
(***************************************************************************)
SessionHeading(n) == TextBlock("heading_2", SESSION_ \o Digits(n))

RECURSIVE HeadedSingleRenders(_)
\* for each session in order: its 'Session {n}' heading, then its single render
HeadedSingleRenders(ss) ==
    IF ss = <<>> THEN <<>>
    ELSE <<SessionHeading(ss[1].sessionNumber)>> \o buildSingleSessionContent(ss[1])
         \o HeadedSingleRenders(Tail(ss))

\* C15: the render of a session list is, session by session in input order, one
\* 'Session {n}' heading followed by the single-session render of that session;
\* so the render of a one-session list without its leading heading is the
\* single-session render.
C15_SingleIsMultiWithoutHeading ==
    pc = "rendered_week" =>
        /\ blocks = HeadedSingleRenders(sessions)
        /\ Len(sessions) = 1 => buildSingleSessionContent(sessions[1]) = Tail(blocks)
        /\ Cardinality({i \in DOMAIN blocks : blocks[i].type = "heading_2"}) = Len(sessions)

\* two sessions with sections of different kinds, rendered
C15_Witness ==
    /\ pc = "rendered_week"
    /\ Len(sessions) = 2
    /\ sessions[1].sections[1].type # sessions[2].sections[1].type
    /\ \E i \in DOMAIN blocks : blocks[i].type = "embed"

(***************************************************************************)
(* Failure of a delivery call                                              *)
(***************************************************************************)
\* C16: no call is issued twice; once a call failed the delivery has stopped with
\* that call as its last one; after a failed append the page exists and holds
\* exactly the blocks of the calls before it, and after a failed creation there
\* is no page and no append call.
C16_FailureStopsDelivery ==
    /\ \A i, j \in DOMAIN calls : i < j => calls[i] # calls[j]
    /\ pc = "failed" =>
        /\ inflight = Null
        /\ Len(calls) = completed + 1
        /\ LET failedCall == calls[Len(calls)]
               delivered == SubSeq(calls, 1, Len(calls) - 1)
           IN /\ failedCall.op = "create" =>
                    /\ \A k \in DOMAIN calls : calls[k].op # "append"
                    /\ pageId = Null
                    /\ remote = <<>>
              /\ failedCall.op = "append" =>
                    /\ pageId = PAGE_ID
                    /\ remote = ChildrenOf(delivered, 1)
                    /\ remote = SubSeq(allBlocks, 1, InitialLimit + ChunkSize * (Len(delivered) - 1))

\* the second append failed: the page holds the first 200 of 250 blocks
C16_Witness ==
    /\ pc = "failed"
    /\ Len(allBlocks) = 250
    /\ Len(calls) = 3
    /\ Len(remote) = 200

(***************************************************************************)
(* Missing configuration                                                   *)
(***************************************************************************)
\* a required field is absent: a sheet argument without default, the week counter
\* of create-week, or a credential of the document sink
ConfigurationMissing ==
    \/ ~HasSheetOwner \/ ~HasSheetTitle \/ ~HasCell
    \/ command = "create-week" /\ config.data.currentWeekNumber = Null
    \/ config.notion = Null
    \/ config.notion # Null /\ ~(config.notion.token /\ config.notion.parentPageId)

\* C17: when a required field is absent from the configuration the command issues
\* no remote call, and it ends reporting the problem with exit code 1.
C17_HaltsBeforeRemoteCalls ==
    ConfigurationMissing =>
        /\ remoteCalls = <<>>
        /\ pc = "exited" => exitCode = 1 /\ reported # <<>>

(***************************************************************************)
(* Cell references                                                         *)
(***************************************************************************)
LettersOf(ref) == SelectSeq(ref, LAMBDA c : c \in UpperChars)
NumberOf(ref) == SelectSeq(ref, LAMBDA c : c \in DigitChars)

RECURSIVE Power(_, _)
Power(b, n) == IF n = 0 THEN 1 ELSE b * Power(b, n - 1)

RECURSIVE PlaceValueSum(_, _, _)
\* the sum of value(s[i]) * base^(position of s[i] from the right), over i <= n
PlaceValueSum(values, base, n) ==
    IF n = 0 THEN 0
    ELSE values[n] * Power(base, Len(values) - n) + PlaceValueSum(values, base, n - 1)

Base26(letters) ==
    PlaceValueSum([i \in DOMAIN letters |-> LetterValue(letters[i])], 26, Len(letters))
Decimal(ds) ==
    PlaceValueSum([i \in DOMAIN ds |-> DigitValue(ds[i])], 10, Len(ds))

HasLeadingZero(ref) == Len(NumberOf(ref)) > 1 /\ NumberOf(ref)[1] = "0"

IndexPair(ref) == <<getCellRowIndex(ref), getCellColumnIndex(ref)>>

IndicesAsClaimed ==
    /\ range.startColumnIndex = Base26(LettersOf(cellReference)) - 1
    /\ range.startRowIndex = Decimal(NumberOf(cellReference)) - 1
    /\ range.endColumnIndex = range.startColumnIndex + 1
    /\ range.endRowIndex = range.startRowIndex + 1

\* C18 (as claimed): the column index is the base-26 value of the letters (A = 1)
\* minus 1, the row index is the number minus 1, and no other reference made of
\* letters followed by digits has the same (row, column) pair.
C18_IndicesAndDistinctPairs ==
    range # Null =>
        /\ IndicesAsClaimed
        /\ \A other \in CellReferences \ {cellReference} :
            IndexPair(other) # <<range.startRowIndex, range.startColumnIndex>>

\* C18 (amended): the indices are as claimed, and no other reference has the same
\* (row, column) pair among the references whose number has no leading zero.
C18_DistinctWithoutLeadingZeros ==
    range # Null =>
        /\ IndicesAsClaimed
        /\ ~HasLeadingZero(cellReference) =>
            \A other \in CellReferences \ {cellReference} :
                ~HasLeadingZero(other) =>
                    IndexPair(other) # <<range.startRowIndex, range.startColumnIndex>>

\* B2 gives row 1, column 1; a two-letter column was converted as well
C18_Witness ==
    /\ range # Null
    /\ \/ cellReference = <<"B", "2">> /\ range.startRowIndex = 1 /\ range.startColumnIndex = 1
       \/ cellReference = <<"A", "B", "1", "2">> /\ range.startColumnIndex = 27

(***************************************************************************)
(* Header lines and freeform lines of the section parser                   *)
(***************************************************************************)
HeadedKinds == {"section", "upper_lower"}

\* the lines the loop has consumed
Consumed == SubSeq(lines, 1, idx)

HeaderLinesOf(ls) == SelectSeq(ls, IsHeaderLine)

\* the sections with a header, the open one last
HeadedSections ==
    SelectSeq(sections, LAMBDA sec : sec.type \in HeadedKinds)
    \o (IF currentSection # Null /\ pc = "loop" THEN <<currentSection>> ELSE <<>>)

\* C19: at every point of a parse the labeled and grouped sections, the open one
\* last, are one per header line consumed, in header order, each with the full
\* trimmed line as header; the open section is the one of the last header line,
\* and every one of them is in the result, with or without content.
C19_SectionPerHeaderLine ==
    pc \in {"loop", "parsed"} =>
        LET headers == HeaderLinesOf(Consumed)
        IN /\ Len(HeadedSections) = Len(headers)
           /\ \A k \in DOMAIN headers :
                /\ HeadedSections[k].header = Trim(headers[k])
                /\ HeadedSections[k].type =
                       IF isSectionHeader(headers[k]) THEN "section" ELSE "upper_lower"
           /\ pc = "loop" => (currentSection # Null <=> headers # <<>>)
           /\ pc = "parsed" =>
                /\ idx = Len(lines)
                /\ Len(SelectSeq(sections, LAMBDA sec : sec.type \in HeadedKinds))
                       = Len(HeaderLinesOf(InputLines))

\* two header lines with nothing between or after them gave two empty sections
C19_Witness ==
    /\ pc = "parsed"
    /\ Len(lines) = 2
    /\ IsHeaderLine(lines[1]) /\ IsHeaderLine(lines[2])
    /\ Len(sections) = 2
    /\ sections[1].content = <<>> /\ sections[2].content = <<>>
    /\ sections[2].youtubeLinks = <<>>

\* the number of lines before the first header line
FreeformPrefix(ls) ==
    Cardinality({k \in DOMAIN ls : \A h \in 1..k : ~IsHeaderLine(ls[h])})

\* C20: while no section is open every consumed line has given a freeform section
\* of its own, with at most one content line (the line without its URLs) and
\* exactly that line's links; the cursor stays closed, and these sections stay
\* as they are when a header line opens a section later.
C20_StandaloneFreeformSections ==
    pc \in {"loop", "parsed"} =>
        LET n == IF idx < FreeformPrefix(lines) THEN idx ELSE FreeformPrefix(lines)
        IN /\ Len(sections) >= n
           /\ \A k \in 1..n :
                /\ sections[k].type = "text"
                /\ Len(sections[k].content) <= 1
                /\ sections[k].content =
                       IF Trim(removeYouTubeLinks(lines[k])) # <<>>
                       THEN <<Trim(removeYouTubeLinks(lines[k]))>> ELSE <<>>
                /\ sections[k].youtubeLinks = extractYouTubeLinks(lines[k])
           /\ (pc = "loop" /\ idx <= FreeformPrefix(lines)) =>
                /\ currentSection = Null
                /\ Len(sections) = idx

\* two freeform lines, one of them only a link, then a header line with content
C20_Witness ==
    /\ pc = "parsed"
    /\ Len(lines) = 3
    /\ FreeformPrefix(lines) = 2
    /\ Len(sections) = 3
    /\ \E k \in 1..2 : sections[k].content = <<>> /\ Len(sections[k].youtubeLinks) = 1

(***************************************************************************)
(* The order of the blocks.children.list calls of the tree walk            *)
(***************************************************************************)
RECURSIVE ChildOnPath(_, _)
\* the child of b on the path from b down to d
ChildOnPath(d, b) == IF ParentOf(d) = b THEN d ELSE ChildOnPath(ParentOf(d), b)

IndexIn(s, x) == CHOOSE k \in DOMAIN s : s[k] = x

OffsetOf(fetch) == IF fetch.start_cursor = Null THEN 0 ELSE fetch.start_cursor.offset

\* every frame but the innermost one is suspended in its for-loop, awaiting the
\* return of extractDescendants
CallersAwait ==
    \A k \in 1..(Len(stack) - 1) : stack[k].at \in {"children", "results"}

\* the pages of one block are requested in cursor order
PagesInCursorOrder ==
    \A i, k \in DOMAIN fetches :
        (i < k /\ fetches[i].block_id = fetches[k].block_id)
            => OffsetOf(fetches[i]) < OffsetOf(fetches[k])

\* C21 as claimed: no page of the children of a block is requested after a
\* request for the children of one of those children; one call at a time.
C21_AllPagesBeforeChildren ==
    /\ CallersAwait
    /\ PagesInCursorOrder
    /\ \A j, k \in DOMAIN fetches :
        (j < k /\ fetches[j].block_id # ROOT)
            => fetches[k].block_id # ParentOf(fetches[j].block_id)

\* C21: all pages of the root's children are requested before any request for
\* the children of another block.  For every other block b, the children of a
\* block below b are requested while the page of b that lists its ancestor is
\* the last page of b requested, so a later page of b begins behind that
\* ancestor.  Only the innermost call issues requests: one call at a time.
C21_RootPagesBeforeChildren ==
    /\ CallersAwait
    /\ PagesInCursorOrder
    /\ Len(stack) >= 2 =>
        /\ stack[1].at = "children"
        /\ ~stack[1].hasMore
        /\ Len(stack[1].children) = Len(tree[ROOT])
    /\ \A j \in DOMAIN fetches : \A b \in DOMAIN tree :
        LET d == fetches[j].block_id
        IN (d # ROOT /\ IsBelow(d, b)) =>
            LET p == IndexIn(tree[b], ChildOnPath(d, b))
            IN /\ \E i \in 1..(j - 1) : fetches[i].block_id = b
               /\ \A i \in 1..(j - 1) :
                    (b # ROOT /\ fetches[i].block_id = b) => OffsetOf(fetches[i]) < p
               /\ \A k \in (j + 1)..Len(fetches) :
                    fetches[k].block_id = b => (b # ROOT /\ OffsetOf(fetches[k]) >= p)

\* the children of a block below the root came in two pages, with the children
\* of its first child requested in between
C21_Witness ==
    /\ pc = "extracted"
    /\ \E i, j, k \in DOMAIN fetches :
        /\ i < j /\ j < k
        /\ fetches[i].block_id = fetches[k].block_id
        /\ fetches[j].block_id # ROOT
        /\ ParentOf(fetches[j].block_id) = fetches[i].block_id

(***************************************************************************)
(* The section cursor after the first header line                          *)
(***************************************************************************)
\* the index of the last header line among the first n lines
LastHeader(ls, n) ==
    CHOOSE h \in 1..n : IsHeaderLine(ls[h]) /\ \A g \in (h + 1)..n : ~IsHeaderLine(ls[g])

FreeformCount(secs) == Cardinality({k \in DOMAIN secs : secs[k].type = "text"})

\* C22: once a header line is consumed a section is open until the end of the
\* loop, and it holds the text and the links of all lines consumed since its
\* header; the freeform sections are those of the lines before the first
\* header, and in the result they all precede the labeled and grouped ones.
C22_CursorStaysOpen ==
    pc \in {"loop", "parsed"} =>
        /\ \A i, j \in DOMAIN sections :
            (i < j /\ sections[j].type = "text") => sections[i].type = "text"
        /\ FreeformCount(sections) <= FreeformPrefix(lines)
        /\ idx >= FreeformPrefix(lines) => FreeformCount(sections) = FreeformPrefix(lines)
        /\ (pc = "loop" /\ idx > FreeformPrefix(lines)) =>
            /\ currentSection # Null
            /\ LET h == LastHeader(lines, idx)
               IN /\ currentSection.header = lines[h]
                  /\ currentSection.content = TextOfRange(lines, h + 1, idx)
                  /\ currentSection.youtubeLinks = LinksOfRange(lines, h + 1, idx, TRUE)

\* a freeform line, a grouped header and a line after it: two sections, the
\* last line inside the grouped one
C22_Witness ==
    /\ pc = "parsed"
    /\ Len(lines) = 3
    /\ FreeformPrefix(lines) = 1
    /\ ~IsHeaderLine(lines[3])
    /\ Len(sections) = 2
    /\ sections[1].type = "text"
    /\ sections[2].type = "upper_lower"
    /\ Len(sections[2].content) + Len(sections[2].youtubeLinks) > 0

(***************************************************************************)
(* The blocks of the remote page during a delivery                         *)
(***************************************************************************)
Min(a, b) == IF a < b THEN a ELSE b

\* C23: at every point of a delivery, whatever calls completed or failed, the
\* remote page holds the first blocks of the rendered sequence, each once and
\* in order: none while no page is created, and otherwise the first
\* min(n, 100 * completed calls) of the n rendered blocks.
C23_RemoteIsPrefix ==
    pc \notin {"build_week", "build_day"} =>
        /\ Len(remote) <= Len(allBlocks)
        /\ \A k \in DOMAIN remote : remote[k] = allBlocks[k]
        /\ \A i, j \in DOMAIN remote : i < j => remote[i] # remote[j]
        /\ completed = 0 => (pageId = Null /\ Len(remote) = 0)
        /\ completed > 0 =>
            /\ pageId = PAGE_ID
            /\ Len(remote) = Min(Len(allBlocks), ChunkSize * completed)

\* a day page of 150 blocks: the creation completed, the append of the last 50
\* is in flight and the page holds the first 100
C23_Witness ==
    /\ pc = "await_append"
    /\ Len(allBlocks) = 150
    /\ completed = 1
    /\ Len(remote) = 100
    /\ Len(inflight.children) = 50

(***************************************************************************)
(* The week counter of config.json                                         *)
(***************************************************************************)
IsWeekTitle(title) == "week" \in DOMAIN title

WeekPages == SelectSeq(pages, IsWeekTitle)

\* the step of create-week that follows saveConfig
ConfigSaved == pc = "save_config" /\ pc' = "create_page"

\* at a state: the run of create-week that is at the page-creation call has
\* stored the number its title carries; every week page carries a number above
\* the first counter and not above the stored one, later pages higher numbers;
\* the stored counter is at least the first one plus the number of week pages
CounterCoversPages ==
    /\ (command = "create-week" /\ pc = "create_page") =>
            pageTitle = WeekTitle(config.data.currentWeekNumber.number)
    /\ WeekPages # <<>> =>
        /\ firstWeekNumber # Null
        /\ config.data.currentWeekNumber.number >= firstWeekNumber.number + Len(WeekPages)
        /\ \A k \in DOMAIN WeekPages :
            /\ WeekPages[k].week > firstWeekNumber.number
            /\ WeekPages[k].week <= config.data.currentWeekNumber.number
            /\ \A j \in 1..(k - 1) : WeekPages[j].week < WeekPages[k].week

\* at a step: saveConfig stores the counter plus one, the number of the title;
\* no other step changes config.json, whether the page creation succeeds or fails
CounterStep ==
    IF ConfigSaved
    THEN /\ config'.data.currentWeekNumber.number = config.data.currentWeekNumber.number + 1
         /\ pageTitle' = WeekTitle(config.data.currentWeekNumber.number + 1)
         /\ remoteCalls' = remoteCalls
    ELSE /\ config' = config
         /\ Len(pages') > Len(pages) => pages' = Append(pages, pageTitle)

\* C24: create-week writes currentWeekNumber + 1 to config.json before it issues
\* the page creation and titles the page with that number; no step takes the
\* counter back, so after any runs the stored counter is at least the first one
\* plus the number of week pages created, also when a page creation failed.
C24_CounterNeverRolledBack == [](CounterCoversPages) /\ [][CounterStep]_vars

\* two runs of create-week: the first created the page of week 10, the page
\* creation of the second failed, and the counter went from 9 to 11
C24_Witness ==
    /\ pc = "exited" /\ exitCode = 1
    /\ command = "create-week" /\ runs = 2
    /\ pageTitle = WeekTitle(11)
    /\ firstWeekNumber = [number |-> 9]
    /\ pages = <<WeekTitle(10)>>
    /\ config.data.currentWeekNumber = [number |-> 11]

(***************************************************************************)
(* The read-only modes                                                     *)
(***************************************************************************)
SinkWrites == {"pages.create", "blocks.children.append"}

SheetCalls ==
    {"authenticate", "findSheetByOwnerAndTitle", "getCellRange", "spreadsheets.batchUpdate"}

Issued(names) == \E k \in DOMAIN remoteCalls : remoteCalls[k] \in names

ReadOnlyRun ==
    \/ command \in {"create-week", "create-day"} /\ options.dryRun
    \/ command = "post-workout" /\ options.test

\* a dry run has issued no page creation and no append and is at no step behind
\* the dry-run test; a test run has issued no call to the spreadsheet service
NoWriteIssued ==
    /\ (command \in {"create-week", "create-day"} /\ options.dryRun) =>
        /\ ~Issued(SinkWrites)
        /\ pc \notin {"connect_notion", "save_config", "create_page"}
        /\ pageTitle = Null
    /\ (command = "post-workout" /\ options.test) =>
        /\ ~Issued(SheetCalls)
        /\ pc \notin {"authenticate", "find_sheet", "add_comment"}

\* no step of a read-only run changes config.json or the pages of the sink
ReadOnlyStep ==
    (ReadOnlyRun /\ pc # "exited") => (config' = config /\ pages' = pages)

\* C25: a --dry-run of create-week or create-day issues no page-creation and no
\* append call and leaves config.json, the week counter in it, as it was; a
\* --test run of post-workout issues no call to the spreadsheet service, the
\* write of the cell note included.
C25_ReadOnlyModes == [](NoWriteIssued) /\ [][ReadOnlyStep]_vars

\* a dry run of create-week read the sheet and ended with the counter unchanged
C25_Witness ==
    /\ pc = "exited" /\ exitCode = 0
    /\ command = "create-week" /\ options.dryRun /\ runs = 1
    /\ remoteCalls = <<"authenticate", "findSheetByOwnerAndTitle", "getCellRange">>
    /\ firstWeekNumber # Null
    /\ config.data.currentWeekNumber = firstWeekNumber
    /\ pages = <<>>

(***************************************************************************)
(* Termination of the tree walk                                            *)
(***************************************************************************)
WalkEnded == pc \in {"extracted", "extract_failed"}

RepeatedRequest == \E i, k \in DOMAIN fetches : i < k /\ fetches[i] = fetches[k]

\* a page is requested twice only after a response with has_more and no cursor
RepeatsOnlyCursorless == RepeatedRequest => cursorless > 0

\* a call that is told has_more and holds no cursor requests the first page
FirstPageAgain ==
    (pc = "walk" /\ Top.at = "fetch" /\ Top.hasMore /\ Top.nextCursor = Null
        /\ Len(fetches') > Len(fetches))
    => fetches'[Len(fetches')] = [block_id |-> Top.blockId, start_cursor |-> Null]

\* C26: while every response with has_more carries the cursor of the next page
\* no page is requested twice and the walk ends, with the blocks or with the
\* error of a call; after a response with has_more and without cursor the call
\* requests the first page again, so the end of the walk rests on that cursor.
C26_TerminatesWithCursors ==
    /\ [](RepeatsOnlyCursorless)
    /\ [][FirstPageAgain]_vars
    /\ <>(cursorless > 0 \/ WalkEnded)

\* one response to a block below the root said has_more without a cursor: its
\* first page was requested again and its children are listed twice
C26_Witness ==
    /\ pc = "extracted"
    /\ cursorless = 1
    /\ \E i, k \in DOMAIN fetches :
        /\ i < k /\ fetches[i] = fetches[k]
        /\ fetches[i].block_id # ROOT /\ fetches[i].start_cursor = Null
    /\ Len(extracted) > Cardinality(TreeNodes)
====
